---- MODULE Spec2Model ----
(***************************************************************************)
(* Model of the azlogs query editor's autocomplete subsystem:              *)
(*   - the context parser and local suggestion engine (AutocompleteEngine) *)
(*   - the suggestion popup (SuggestionPopup)                              *)
(*   - the bubbletea Model.Update message loop with its debounce timers,   *)
(*     remote suggestion requests and generation tag.                      *)
(* Strings are Go strings restricted to ASCII; offsets into strings are    *)
(* 0-based as in the source, SubSeq is 1-based.                            *)
(***************************************************************************)
EXTENDS Integers, Sequences, FiniteSets, Bags, TLC

VARIABLES
    \* ---- Model fields (ui.Model) ----
    editorText,             \* m.editor.Value()
    editorCursor,           \* m.editor.CursorPosition()
    currentView,            \* m.currentView
    connected,              \* m.connected
    connecting,             \* m.connecting
    openaiClient,           \* m.openaiClient != nil
    client,                 \* workspace m.client was created for, "" when nil
    workspaceID,            \* m.workspaceID
    workspaceInput,         \* m.workspaceInput.Value()
    lastError,              \* m.lastError
    suggestion,             \* m.suggestion
    suggestLoading,         \* m.suggestLoading
    suggestionDebounceTag,  \* m.suggestionDebounceTag
    availableTables,        \* m.availableTables (= autocompleteEngine.tables)
    schemaCache,            \* m.schemaCache (= autocompleteEngine.schemas)
    popup,                  \* *m.suggestionPopup
    \* ---- commands in flight (tea.Cmd goroutines and timers) ----
    timers,                 \* bag of debounceMsg tags still ticking
    requests,               \* bag of getSuggestion commands [tag, query]
    connects,               \* bag of Connect commands (workspace captured)
    tableLoads,             \* bag of loadAvailableTables commands
    schemaLoads,            \* bag of schema fetch commands (table name)
    \* ---- history of the run (observation only) ----
    lastTrigger,            \* what issued the current tag: "none" | "key" | "manual"
    lastDelivery,           \* fate of the last suggestionMsg: "none" | "applied" | "appliedErr" | "dropped"
    burstLo,                \* first tag of the current keystroke burst, 0 if none
    burstOK,                \* every debounce of the burst was delivered while connected
    burstIssued,            \* tags of the requests issued for the burst's debounces
    nConnects,              \* number of Connect commands issued so far
    \* ---- harness for the pure functions ----
    pQuery,                 \* the query text put together so far
    pPieces,                \* number of pieces it was put together from
    pCursor,                \* cursorPos of the call
    pTables,                \* the engine's table list
    pCtx,                   \* the ParsedContext returned
    pReqTables,             \* what parseTablesFromQuery returned for the same text
    pSchemas,               \* the engine's schema cache
    pLimit,                 \* limit of the GetSuggestions call
    pSugg,                  \* the list GetSuggestions returned
    pPopup,                 \* the popup after the call
    pPrev,                  \* the popup before the call
    pCall,                  \* which function was called, "none" before the call
    pDone,                  \* the call has been made
    \* ---- what the services were asked and answered (observation only) ----
    schemaLog,              \* per table, the schema results handled so far: [ok, columns]
    remoteCalls,            \* the SuggestKQLQuery calls made: [tag, query, referenced, cached, asked, fetched, schemas]
    \* ---- Model fields of query execution, history and templates ----
    loading,                \* m.loading
    lastQuery,              \* m.lastQuery
    queries,                \* bag of executeQuery commands in flight (query captured)
    history,                \* *m.history: [Entries, MaxSize]
    historyList,            \* m.historyList
    historyIndex,           \* m.historyIndex
    historyAdded,           \* every entry handed to History.Add, in call order (observation only)
    recent,                 \* the last GetRecent(n) call of the harness: [n, entries returned, of: the list it was made on], n = -1 before any
    clearedAt,              \* the tag at the last clearing of m.suggestion by a key, -1 before any (observation only)
    savingTemplate,         \* m.savingTemplate
    templateInput,          \* m.templateInput.Value()
    templates,              \* m.templates.Entries
    templateList,           \* m.templateList
    templateIndex,          \* m.templateIndex
    \* ---- the clipboard package and the machine it runs on ----
    clipEnv,                \* [display: $WAYLAND_DISPLAY, tools: executables on $PATH]
    clipboard               \* what the last New() returned: [env, backend, err], backend "none" before

modelVars == <<editorText, editorCursor, currentView, connected, connecting,
               openaiClient, client, workspaceID, workspaceInput, lastError,
               suggestion, suggestLoading, suggestionDebounceTag,
               availableTables, schemaCache, popup>>
flightVars == <<timers, requests, connects, tableLoads, schemaLoads>>
histVars == <<lastTrigger, lastDelivery, burstLo, burstOK, burstIssued, nConnects>>
pureVars == <<pQuery, pPieces, pCursor, pTables, pCtx, pReqTables, pSchemas,
              pLimit, pSugg, pPopup, pPrev, pCall, pDone>>
obsVars == <<schemaLog, remoteCalls>>
execVars == <<loading, lastQuery, queries, history, historyList, historyIndex,
              historyAdded, recent, clearedAt>>
templateVars == <<savingTemplate, templateInput, templates, templateList,
                  templateIndex>>
clipVars == <<clipEnv, clipboard>>
extVars == <<execVars, templateVars, clipVars>>
vars == <<modelVars, flightVars, histVars, pureVars, obsVars, extVars>>

(***************************************************************************)
(* Go's strings package, on ASCII strings.                                 *)
(***************************************************************************)
UpperLetters == "ABCDEFGHIJKLMNOPQRSTUVWXYZ"
LowerLetters == "abcdefghijklmnopqrstuvwxyz"
Digits == "0123456789"

CharAt(s, i) == SubSeq(s, i, i)

CharIn(c, alphabet) == \E i \in 1..Len(alphabet) : CharAt(alphabet, i) = c

\* unicode.IsLetter / unicode.IsDigit on an ASCII byte
IsLetter(c) == CharIn(c, UpperLetters) \/ CharIn(c, LowerLetters)
IsDigit(c) == CharIn(c, Digits)

\* unicode.IsSpace on an ASCII byte (strings.TrimSpace)
IsSpace(c) == c \in {" ", "\t", "\n", "\r", "\f"}

LowerChar(c) ==
    IF CharIn(c, UpperLetters)
    THEN CharAt(LowerLetters, CHOOSE i \in 1..26 : CharAt(UpperLetters, i) = c)
    ELSE c

RECURSIVE ToLower(_)
ToLower(s) == IF s = "" THEN "" ELSE LowerChar(CharAt(s, 1)) \o ToLower(Tail(s))

HasPrefix(s, p) == Len(p) <= Len(s) /\ SubSeq(s, 1, Len(p)) = p
HasSuffix(s, p) == Len(p) <= Len(s) /\ SubSeq(s, Len(s) - Len(p) + 1, Len(s)) = p

\* offsets (0-based) at which sub occurs in s
Occurrences(s, sub) ==
    {i \in 0..(Len(s) - Len(sub)) : SubSeq(s, i + 1, i + Len(sub)) = sub}

Contains(s, sub) == Occurrences(s, sub) # {}

SetMax(S) == CHOOSE x \in S : \A y \in S : y <= x
SetMin(S) == CHOOSE x \in S : \A y \in S : x <= y

\* strings.LastIndex: 0-based offset of the last occurrence, -1 if none
LastIndex(s, sub) == IF Contains(s, sub) THEN SetMax(Occurrences(s, sub)) ELSE -1

\* strings.TrimRight(s, cutset)
RECURSIVE TrimRight(_, _)
TrimRight(s, cutset) ==
    IF s # "" /\ CharIn(CharAt(s, Len(s)), cutset)
    THEN TrimRight(SubSeq(s, 1, Len(s) - 1), cutset)
    ELSE s

RECURSIVE TrimSpaceRight(_)
TrimSpaceRight(s) ==
    IF s # "" /\ IsSpace(CharAt(s, Len(s)))
    THEN TrimSpaceRight(SubSeq(s, 1, Len(s) - 1))
    ELSE s

RECURSIVE TrimSpaceLeft(_)
TrimSpaceLeft(s) ==
    IF s # "" /\ IsSpace(CharAt(s, 1)) THEN TrimSpaceLeft(Tail(s)) ELSE s

\* strings.TrimSpace
TrimSpace(s) == TrimSpaceLeft(TrimSpaceRight(s))

(***************************************************************************)
(* Static vocabulary of the engine.                                        *)
(***************************************************************************)
kqlOperators ==
    << "where", "project", "extend", "summarize", "join", "union",
       "take", "limit", "top", "sort", "order", "distinct",
       "count", "render", "parse", "evaluate", "invoke",
       "mv-expand", "make-series", "serialize", "range" >>

kqlFunctions ==
    << "count()", "sum(", "avg(", "min(", "max(", "dcount(",
       "percentile(", "stdev(", "variance(", "countif(",
       "sumif(", "avgif(", "minif(", "maxif(",
       "make_list(", "make_set(", "arg_max(", "arg_min(" >>

kqlTimeFunctions ==
    << "ago(", "now()", "datetime(", "timespan(",
       "startofday(", "startofweek(", "startofmonth(",
       "endofday(", "endofweek(", "endofmonth(",
       "bin(", "format_datetime(" >>

ContextTypes == {"Unknown", "TableName", "Operator", "ColumnName", "Function", "Value"}

(***************************************************************************)
(* Context parser.                                                         *)
(***************************************************************************)

\* the character class of the word scan in findCurrentWord
IsWordChar(c) == IsLetter(c) \/ IsDigit(c) \/ c = "_" \/ c = "-"

\* the 0-based start of the trailing run of word characters of text
RECURSIVE WordStart(_, _)
WordStart(text, start) ==
    IF start > 0 /\ IsWordChar(CharAt(text, start))
    THEN WordStart(text, start - 1)
    ELSE start

\* findCurrentWord: <<word, start>>
findCurrentWord(text) ==
    IF Len(text) = 0 THEN <<"", 0>>
    ELSE LET start == WordStart(text, Len(text))
         IN  <<SubSeq(text, start + 1, Len(text)), start>>

\* the patterns tried for one table in findReferencedTables
ReferencePatterns(tableLower) ==
    << tableLower \o " ", tableLower \o "|", tableLower \o "\n",
       "| " \o tableLower, "|" \o tableLower, "union " \o tableLower,
       "join " \o tableLower, "join (" \o tableLower >>

TableIsReferenced(queryLower, tableLower) ==
    \E k \in 1..Len(ReferencePatterns(tableLower)) :
        \/ Contains(queryLower, ReferencePatterns(tableLower)[k])
        \/ HasPrefix(queryLower, tableLower)

\* append unless already seen
AppendNew(seq, x) ==
    IF \E i \in 1..Len(seq) : seq[i] = x THEN seq ELSE Append(seq, x)

\* findReferencedTables: iterates the engine's table list, in list order
RECURSIVE ReferencedFrom(_, _, _, _)
ReferencedFrom(tables, queryLower, i, acc) ==
    IF i > Len(tables) THEN acc
    ELSE ReferencedFrom(tables, queryLower, i + 1,
            IF TableIsReferenced(queryLower, ToLower(tables[i]))
            THEN AppendNew(acc, tables[i]) ELSE acc)

findReferencedTables(tables, query) ==
    ReferencedFrom(tables, ToLower(query), 1, <<>>)

columnKeywords == << "where ", "project ", "extend ", "by ", "on " >>

\* the column-keyword loop of determineContextType: the first keyword of the
\* list that occurs in the segment, "" when none does
FirstColumnKeyword(afterPipeLower) ==
    IF \E k \in 1..Len(columnKeywords) : Contains(afterPipeLower, columnKeywords[k])
    THEN columnKeywords[SetMin({k \in 1..Len(columnKeywords) :
                                   Contains(afterPipeLower, columnKeywords[k])})]
    ELSE ""

\* determineContextType without the "might be typing operator" test of the
\* first word after the pipe
determineContextTypeNoFirstWord(beforeCursor) ==
    LET trimmed == TrimSpace(beforeCursor)
        lastPipe == LastIndex(trimmed, "|")
        afterPipe == TrimSpace(SubSeq(trimmed, lastPipe + 2, Len(trimmed)))
        afterPipeLower == ToLower(afterPipe)
        kw == FirstColumnKeyword(afterPipeLower)
    IN  IF Len(trimmed) = 0 THEN <<"TableName", "">>
        ELSE IF HasSuffix(trimmed, "|") THEN <<"Operator", "">>
        ELSE IF lastPipe # -1 /\ kw # "" THEN <<"ColumnName", TrimSpace(kw)>>
        ELSE IF lastPipe # -1 /\ Contains(afterPipeLower, "summarize ")
             THEN <<"Function", "summarize">>
        ELSE IF ~Contains(trimmed, "|") /\ ~Contains(trimmed, " ")
             THEN <<"TableName", "">>
        ELSE <<"Unknown", "">>

\* determineContextType: <<type, afterKeyword>>
determineContextType(beforeCursor) ==
    LET trimmed == TrimSpace(beforeCursor)
        lastPipe == LastIndex(trimmed, "|")
        afterPipe == TrimSpace(SubSeq(trimmed, lastPipe + 2, Len(trimmed)))
        afterPipeLower == ToLower(afterPipe)
        kw == FirstColumnKeyword(afterPipeLower)
    IN  IF Len(trimmed) = 0 THEN <<"TableName", "">>
        ELSE IF HasSuffix(trimmed, "|") THEN <<"Operator", "">>
        ELSE IF lastPipe # -1 /\ (Len(afterPipe) = 0 \/ ~Contains(afterPipe, " "))
             THEN <<"Operator", "">>
        ELSE IF lastPipe # -1 /\ kw # "" THEN <<"ColumnName", TrimSpace(kw)>>
        ELSE IF lastPipe # -1 /\ Contains(afterPipeLower, "summarize ")
             THEN <<"Function", "summarize">>
        ELSE IF lastPipe # -1 /\ (HasSuffix(afterPipeLower, "join ")
                                  \/ HasSuffix(afterPipeLower, "union "))
             THEN <<"TableName", "">>
        ELSE IF ~Contains(trimmed, "|") /\ ~Contains(trimmed, " ")
             THEN <<"TableName", "">>
        ELSE <<"Unknown", "">>

\* the value of a call that panicked (slice bounds out of range)
PanicContext ==
    [panicked |-> TRUE, Type |-> "Unknown", CurrentTable |-> "", CurrentWord |-> "",
     WordStartPos |-> 0, ReferencedTables |-> <<>>, AfterKeyword |-> ""]

\* ParseContext(query, cursorPos) of an engine whose table list is tables.
\* Only the upper end of cursorPos is clamped; query[:cursorPos] panics for
\* a negative cursorPos.
ParseContext(tables, query, cursorPos) ==
    LET cur == IF cursorPos > Len(query) THEN Len(query) ELSE cursorPos
        beforeCursor == TrimRight(SubSeq(query, 1, cur), " \t\n")
        word == findCurrentWord(beforeCursor)
        refs == findReferencedTables(tables, query)
        typ == determineContextType(beforeCursor)
    IN  IF cur < 0 THEN PanicContext
        ELSE [panicked |-> FALSE,
              Type |-> typ[1],
              CurrentTable |-> IF Len(refs) > 0 THEN refs[1] ELSE "",
              CurrentWord |-> word[1],
              WordStartPos |-> word[2],
              ReferencedTables |-> refs,
              AfterKeyword |-> typ[2]]

(***************************************************************************)
(* Local suggestion engine.  A suggestion is [Text, Type, Description,     *)
(* Score]; a schema is a sequence of columns [Name, Type]; the schema      *)
(* cache is a function from the cached table names to their schemas.       *)
(***************************************************************************)
Sugg(text, type, desc, score) ==
    [Text |-> text, Type |-> type, Description |-> desc, Score |-> score]

\* score := 100; if candidate == prefix { score = 200 }
MatchScore(candLower, prefixLower) == IF candLower = prefixLower THEN 200 ELSE 100

BoostedOperators == {"where", "project", "take", "summarize"}
BoostedColumns == {"TimeGenerated", "ResourceId", "OperationName"}

getTableSuggestions(tables, prefix) ==
    LET prefixLower == ToLower(prefix)
        hits == SelectSeq(tables, LAMBDA t : HasPrefix(ToLower(t), prefixLower))
    IN  [i \in 1..Len(hits) |->
            Sugg(hits[i], "table", "Table", MatchScore(ToLower(hits[i]), prefixLower))]

\* getOperatorSuggestions without the boost of the common operators
getOperatorSuggestionsNoBoost(prefix) ==
    LET prefixLower == ToLower(prefix)
        hits == SelectSeq(kqlOperators, LAMBDA op : HasPrefix(op, prefixLower))
    IN  [i \in 1..Len(hits) |->
            Sugg(hits[i], "operator", "Operator", MatchScore(hits[i], prefixLower))]

getOperatorSuggestions(prefix) ==
    LET prefixLower == ToLower(prefix)
        hits == SelectSeq(kqlOperators, LAMBDA op : HasPrefix(op, prefixLower))
    IN  [i \in 1..Len(hits) |->
            Sugg(hits[i], "operator", "Operator",
                 MatchScore(hits[i], prefixLower)
                 + (IF hits[i] \in BoostedOperators THEN 50 ELSE 0))]

\* getColumnSuggestions that falls back on another cached table on a miss
getColumnSuggestionsAnyTable(schemas, tableName, prefix) ==
    LET prefixLower == ToLower(prefix)
        columns == IF tableName \in DOMAIN schemas THEN schemas[tableName]
                   ELSE IF DOMAIN schemas = {} THEN <<>>
                   ELSE schemas[CHOOSE t \in DOMAIN schemas : TRUE]
        hits == SelectSeq(columns, LAMBDA col : HasPrefix(ToLower(col.Name), prefixLower))
    IN  [i \in 1..Len(hits) |->
            Sugg(hits[i].Name, "column", hits[i].Type,
                 MatchScore(ToLower(hits[i].Name), prefixLower)
                 + (IF hits[i].Name \in BoostedColumns THEN 50 ELSE 0))]

getColumnSuggestions(schemas, tableName, prefix) ==
    LET prefixLower == ToLower(prefix)
        columns == IF tableName \in DOMAIN schemas THEN schemas[tableName] ELSE <<>>
        hits == SelectSeq(columns, LAMBDA col : HasPrefix(ToLower(col.Name), prefixLower))
    IN  [i \in 1..Len(hits) |->
            Sugg(hits[i].Name, "column", hits[i].Type,
                 MatchScore(ToLower(hits[i].Name), prefixLower)
                 + (IF hits[i].Name \in BoostedColumns THEN 50 ELSE 0))]

getFunctionSuggestions(prefix) ==
    LET prefixLower == ToLower(prefix)
        allFunctions == kqlFunctions \o kqlTimeFunctions
        hits == SelectSeq(allFunctions, LAMBDA fn : HasPrefix(ToLower(fn), prefixLower))
    IN  [i \in 1..Len(hits) |->
            Sugg(hits[i], "function", "Function",
                 100 + (IF HasPrefix(ToLower(hits[i]), "count")
                           \/ HasPrefix(ToLower(hits[i]), "sum") THEN 50 ELSE 0))]

\* one pass of insertion sort: x sinks below every element it is not greater than
RECURSIVE InsertByScore(_, _)
InsertByScore(sorted, x) ==
    IF sorted = <<>> THEN <<x>>
    ELSE IF x.Score > sorted[Len(sorted)].Score
         THEN Append(InsertByScore(SubSeq(sorted, 1, Len(sorted) - 1), x),
                     sorted[Len(sorted)])
         ELSE Append(sorted, x)

\* the insertion sort the runtime uses for slices of at most 12 elements;
\* it keeps candidates of equal score in their order
RECURSIVE SortByScore(_)
SortByScore(seq) ==
    IF seq = <<>> THEN <<>>
    ELSE InsertByScore(SortByScore(SubSeq(seq, 1, Len(seq) - 1)), seq[Len(seq)])

\* seq with the elements at positions i and i + 1 exchanged
SwapAdjacent(seq, i) ==
    [k \in 1..Len(seq) |-> IF k = i THEN seq[i + 1]
                           ELSE IF k = i + 1 THEN seq[i] ELSE seq[k]]

\* the length up to which sort.Slice sorts by insertion
maxInsertion == 12

\* GetSuggestions without the sort
SortSliceUnsorted(seq) == {seq}

\* sort.Slice(suggestions, Score descending).  The sort is not stable: above
\* maxInsertion elements the quicksort may leave candidates of equal score in
\* any order.  Of those orders the model takes the one that keeps the source
\* order and each one that exchanges two neighbours of equal score in it.
SortSlice(seq) ==
    LET stable == SortByScore(seq)
    IN  IF Len(seq) <= maxInsertion THEN {stable}
        ELSE {stable} \cup {SwapAdjacent(stable, i) :
                                i \in {k \in 1..(Len(stable) - 1) :
                                          stable[k].Score = stable[k + 1].Score}}

\* GetSuggestions whose default case offers the operators only
CandidatesOperatorsOnly(tables, schemas, ctx) ==
    CASE ctx.Type = "TableName" -> getTableSuggestions(tables, ctx.CurrentWord)
      [] ctx.Type = "Operator" -> getOperatorSuggestions(ctx.CurrentWord)
      [] ctx.Type = "ColumnName" ->
            getColumnSuggestions(schemas, ctx.CurrentTable, ctx.CurrentWord)
      [] ctx.Type = "Function" -> getFunctionSuggestions(ctx.CurrentWord)
      [] OTHER -> getOperatorSuggestions(ctx.CurrentWord)

\* the candidates GetSuggestions collects for a context, before sorting
Candidates(tables, schemas, ctx) ==
    CASE ctx.Type = "TableName" -> getTableSuggestions(tables, ctx.CurrentWord)
      [] ctx.Type = "Operator" -> getOperatorSuggestions(ctx.CurrentWord)
      [] ctx.Type = "ColumnName" ->
            getColumnSuggestions(schemas, ctx.CurrentTable, ctx.CurrentWord)
      [] ctx.Type = "Function" -> getFunctionSuggestions(ctx.CurrentWord)
      [] OTHER -> getOperatorSuggestions(ctx.CurrentWord)
                  \o getColumnSuggestions(schemas, ctx.CurrentTable, ctx.CurrentWord)

\* if limit > 0 && len(suggestions) > limit { suggestions = suggestions[:limit] }
Limited(sorted, limit) ==
    IF limit > 0 /\ Len(sorted) > limit THEN SubSeq(sorted, 1, limit) ELSE sorted

\* GetSuggestions(ctx, limit): the set of lists the call can return
GetSuggestions(tables, schemas, ctx, limit) ==
    {Limited(sorted, limit) : sorted \in SortSlice(Candidates(tables, schemas, ctx))}

(***************************************************************************)
(* Suggestion popup.                                                       *)
(***************************************************************************)
maxVisible == 8

\* SetSuggestions that always shows the popup
SetSuggestionsShown(list) ==
    [suggestions |-> list, selectedIndex |-> 0, visible |-> TRUE,
     scrollOffset |-> 0]

SetSuggestions(list) ==
    [suggestions |-> list, selectedIndex |-> 0, visible |-> Len(list) > 0,
     scrollOffset |-> 0]

Hide == [suggestions |-> <<>>, selectedIndex |-> 0, visible |-> FALSE,
         scrollOffset |-> 0]

IsVisible(p) == p.visible /\ Len(p.suggestions) > 0

\* Next without its scroll adjustment
PopupNextNoScroll(p) ==
    IF Len(p.suggestions) = 0 THEN p
    ELSE LET wrap == p.selectedIndex + 1 >= Len(p.suggestions)
         IN  [p EXCEPT !.selectedIndex = IF wrap THEN 0 ELSE p.selectedIndex + 1,
                       !.scrollOffset = IF wrap THEN 0 ELSE p.scrollOffset]

PopupNext(p) ==
    IF Len(p.suggestions) = 0 THEN p
    ELSE LET wrap == p.selectedIndex + 1 >= Len(p.suggestions)
             sel == IF wrap THEN 0 ELSE p.selectedIndex + 1
             off == IF wrap THEN 0 ELSE p.scrollOffset
         IN  [p EXCEPT !.selectedIndex = sel,
                       !.scrollOffset = IF sel >= off + maxVisible
                                        THEN sel - maxVisible + 1 ELSE off]

PopupPrevious(p) ==
    IF Len(p.suggestions) = 0 THEN p
    ELSE LET wrap == p.selectedIndex - 1 < 0
             sel == IF wrap THEN Len(p.suggestions) - 1 ELSE p.selectedIndex - 1
             off == IF wrap
                    THEN (IF Len(p.suggestions) - maxVisible > 0
                          THEN Len(p.suggestions) - maxVisible ELSE 0)
                    ELSE p.scrollOffset
         IN  [p EXCEPT !.selectedIndex = sel,
                       !.scrollOffset = IF sel < off THEN sel ELSE off]

\* GetSelectedText (Selected() is nil on an empty list or an index past it)
GetSelectedText(p) ==
    IF Len(p.suggestions) = 0 \/ p.selectedIndex >= Len(p.suggestions) THEN ""
    ELSE p.suggestions[p.selectedIndex + 1].Text

(***************************************************************************)
(* azure.History (internal/azure/history.go).                              *)
(***************************************************************************)
\* NewHistory(1000) in NewModel
HistorySize == 1000

\* GetRecent(50) in the "f2" handler and navigateHistory
RecentCount == 50

NewHistory(maxSize) == [Entries |-> <<>>, MaxSize |-> maxSize]

HistoryAddUntrimmed(h, entry) == [h EXCEPT !.Entries = <<entry>> \o h.Entries]

\* History.Add: prepend, then cut the list back to MaxSize
HistoryAdd(h, entry) ==
    LET entries == <<entry>> \o h.Entries
    IN  [h EXCEPT !.Entries = IF Len(entries) > h.MaxSize
                              THEN SubSeq(entries, 1, h.MaxSize)
                              ELSE entries]

\* History.GetRecent
GetRecent(h, n) ==
    LET k == IF n > Len(h.Entries) THEN Len(h.Entries) ELSE n
    IN  SubSeq(h.Entries, 1, k)

(***************************************************************************)
(* azure.Templates (azlogs/internal/azure/templates.go).                   *)
(***************************************************************************)
NewTemplates == <<>>

\* Templates.Add(name, query, "", nil): append
TemplatesAdd(entries, name, query) == Append(entries, [Name |-> name, Query |-> query])

(***************************************************************************)
(* Package clipboard: backend detection.                                   *)
(***************************************************************************)
ClipboardTools == {"wl-copy", "wl-paste", "xclip", "xsel"}

\* WaylandBackend.Available, XclipBackend.Available, XselBackend.Available
WaylandAvailable(tools) == "wl-copy" \in tools /\ "wl-paste" \in tools

XclipAvailable(tools) == "xclip" \in tools

XselAvailable(tools) == "xsel" \in tools

detectBackendNeedsDisplay(display, tools) ==
    IF display # "" /\ WaylandAvailable(tools) THEN "wayland"
    ELSE IF XclipAvailable(tools) THEN "xclip"
    ELSE IF XselAvailable(tools) THEN "xsel"
    ELSE "nil"

\* detectBackend: Wayland first under $WAYLAND_DISPLAY, then the X11 tools,
\* then Wayland without the variable
detectBackend(display, tools) ==
    IF display # "" /\ WaylandAvailable(tools) THEN "wayland"
    ELSE IF XclipAvailable(tools) THEN "xclip"
    ELSE IF XselAvailable(tools) THEN "xsel"
    ELSE IF WaylandAvailable(tools) THEN "wayland"
    ELSE "nil"

\* clipboard.New
New(env) ==
    LET backend == detectBackend(env.display, env.tools)
    IN  IF backend = "nil"
        THEN [env |-> env, backend |-> "nil", err |-> "ErrNoClipboardTool"]
        ELSE [env |-> env, backend |-> backend, err |-> "nil"]

\* the Model fields NewModel sets besides the autocomplete ones, and a
\* machine on which the clipboard package has not been used
NewModelRestSized(maxSize) ==
    /\ loading = FALSE
    /\ lastQuery = ""
    /\ queries = EmptyBag
    /\ history = NewHistory(maxSize)
    /\ historyList = <<>>
    /\ historyIndex = 0
    /\ historyAdded = <<>>
    /\ recent = [n |-> -1, entries |-> <<>>, of |-> <<>>]
    /\ clearedAt = -1
    /\ savingTemplate = FALSE
    /\ templateInput = ""
    /\ templates = NewTemplates
    /\ templateList = <<>>
    /\ templateIndex = 0
    /\ clipEnv = [display |-> "", tools |-> {}]
    /\ clipboard = [env |-> [display |-> "", tools |-> {}], backend |-> "none",
                    err |-> "none"]

NewModelRest == NewModelRestSized(HistorySize)

(***************************************************************************)
(* State after NewModel / Init of the program.                             *)
(***************************************************************************)
MaxTag == 2

Tags == 1..MaxTag

\* NewModel(workspaceID, authMethod) followed by Model.Init()
ModelInit(ws) ==
    /\ editorText = ""
    /\ editorCursor = 0
    /\ currentView = "Query"
    /\ connected = FALSE
    /\ connecting = (ws # "")
    /\ openaiClient = FALSE
    /\ client = ""
    /\ workspaceID = ws
    /\ workspaceInput = ws
    /\ lastError = ""
    /\ suggestion = ""
    /\ suggestLoading = FALSE
    /\ suggestionDebounceTag = 0
    /\ availableTables = <<>>
    /\ schemaCache = <<>>
    /\ popup = Hide
    /\ timers = EmptyBag
    /\ requests = EmptyBag
    /\ connects = IF ws # "" THEN SetToBag({ws}) ELSE EmptyBag
    /\ tableLoads = EmptyBag
    /\ schemaLoads = EmptyBag
    /\ lastTrigger = "none"
    /\ lastDelivery = "none"
    /\ burstLo = 0
    /\ burstOK = TRUE
    /\ burstIssued = <<>>
    /\ nConnects = IF ws # "" THEN 1 ELSE 0
    /\ schemaLog = <<>>
    /\ remoteCalls = {}
    /\ NewModelRest

(***************************************************************************)
(* The environment: what the user can type and what the services answer.   *)
(***************************************************************************)
MaxConnects == 1

TypedChars == {"A"}

Workspaces == {"ws1"}

\* client.GetAvailableTables of a workspace
WorkspaceTables == << "AzureActivity" >>

\* client.GetTableSchema of a table
TableColumns(table) ==
    IF table = "AzureActivity"
    THEN << [Name |-> "TimeGenerated", Type |-> "datetime"] >>
    ELSE << [Name |-> "AppRoleName", Type |-> "string"] >>

\* texts openaiClient.SuggestKQLQuery may return without error
RemoteAnswers == {"AzureActivity | take 5"}

\* what a getSuggestion command can send back: [err, suggestion]
Outcomes(req) ==
    {[err |-> TRUE, suggestion |-> ""]}
    \cup (IF req.query = "" THEN {}
          ELSE {[err |-> FALSE, suggestion |-> a] : a \in RemoteAnswers})

OneOf(x) == SetToBag({x})

(***************************************************************************)
(* The query editor (a single-line textarea).                              *)
(***************************************************************************)
InsertAt(text, cursor, c) ==
    SubSeq(text, 1, cursor) \o c \o SubSeq(text, cursor + 1, Len(text))

DeleteAt(text, pos) ==
    SubSeq(text, 1, pos - 1) \o SubSeq(text, pos + 1, Len(text))

(***************************************************************************)
(* Model.Update and its helpers.                                           *)
(***************************************************************************)

\* updateLocalSuggestions without its filter
FilterNothing(suggestions, word) == suggestions

\* the filter of updateLocalSuggestions: drop what is already typed
FilterTyped(suggestions, word) == SelectSeq(suggestions, LAMBDA sg : sg.Text # word)

\* updateLocalSuggestions: the popups it can compute for the editor's content
updateLocalSuggestions(text, cursor, tables, schemas) ==
    LET ctx == ParseContext(tables, text, cursor)
    IN  {SetSuggestions(FilterTyped(suggestions, ctx.CurrentWord)) :
            suggestions \in GetSuggestions(tables, schemas, ctx, 10)}

\* acceptLocalSuggestion that inserts the suggestion at the cursor
acceptLocalSuggestionInsert(query, cursorPos, tables, text) ==
    SubSeq(query, 1, cursorPos) \o text \o SubSeq(query, cursorPos + 1, Len(query))

\* acceptLocalSuggestion: the editor's new content
acceptLocalSuggestion(query, cursorPos, tables, text) ==
    LET ctx == ParseContext(tables, query, cursorPos)
        beforeWord == SubSeq(query, 1, ctx.WordStartPos)
        afterCursor == IF cursorPos < Len(query)
                       THEN SubSeq(query, cursorPos + 1, Len(query)) ELSE ""
    IN  beforeWord \o text \o afterCursor

(***************************************************************************)
(* The two functions above on every editor content a session on            *)
(* WorkspaceTables can reach from an empty editor, evaluated once.         *)
(***************************************************************************)
\* the table lists and schema caches of such a session
SessionTables == {<<>>, WorkspaceTables}

SessionCaches ==
    {[t \in S |-> TableColumns(t)] :
        S \in SUBSET {WorkspaceTables[i] : i \in 1..Len(WorkspaceTables)}}

\* the entries of the popups for <<text, cursor>>
Offered(text, cursor) ==
    UNION {{p.suggestions[i].Text : i \in 1..Len(p.suggestions)} :
           p \in UNION {updateLocalSuggestions(text, cursor, tables, schemas) :
                          tables \in SessionTables, schemas \in SessionCaches}}

\* <<text, cursor>> after at most n keystrokes and popup accepts
RECURSIVE EditorStates(_)
EditorStates(n) ==
    IF n = 0 THEN {<<"", 0>>}
    ELSE LET before == EditorStates(n - 1)
         IN  before
             \cup {<<InsertAt(e[1], e[2], c), e[2] + 1>> : e \in before, c \in TypedChars}
             \cup {<<DeleteAt(e[1], e[2]), e[2] - 1>> : e \in {x \in before : x[2] > 0}}
             \cup {<<DeleteAt(e[1], e[2] + 1), e[2]>> :
                      e \in {x \in before : x[2] < Len(x[1])}}
             \cup UNION {{<<acceptLocalSuggestion(e[1], e[2], tables, text),
                            Len(acceptLocalSuggestion(e[1], e[2], tables, text))>> :
                             tables \in SessionTables, text \in Offered(e[1], e[2])} :
                         e \in before}

\* the calls of updateLocalSuggestions: <<text, cursor, tables, schemas>>
TypedInputs ==
    {<<e[1], e[2], tables, schemas>> :
        e \in EditorStates(2 * MaxTag), tables \in SessionTables,
        schemas \in SessionCaches}

TypedPopups ==
    [x \in TypedInputs |-> updateLocalSuggestions(x[1], x[2], x[3], x[4])]

\* m.updateLocalSuggestions() as called by the typing branch
localSuggestions(text, cursor, tables, schemas) ==
    IF <<text, cursor, tables, schemas>> \in TypedInputs
    THEN TypedPopups[<<text, cursor, tables, schemas>>]
    ELSE updateLocalSuggestions(text, cursor, tables, schemas)

\* the calls of acceptLocalSuggestion: <<query, cursorPos, tables, text>>
AcceptInputs ==
    UNION {{<<e[1], e[2], tables, text>> :
                tables \in SessionTables, text \in Offered(e[1], e[2])} :
           e \in EditorStates(2 * MaxTag)}

AcceptedTexts ==
    [y \in AcceptInputs |-> acceptLocalSuggestion(y[1], y[2], y[3], y[4])]

\* m.acceptLocalSuggestion(selected) as called by the popup's "tab"/"enter"
acceptSelected(query, cursorPos, tables, text) ==
    IF <<query, cursorPos, tables, text>> \in AcceptInputs
    THEN AcceptedTexts[<<query, cursorPos, tables, text>>]
    ELSE acceptLocalSuggestion(query, cursorPos, tables, text)

\* m.suggestionDebounceTag++ without the increment
SameTag(tag) == tag

\* m.suggestionDebounceTag++ (typing branch)
NextTag(tag) == tag + 1

\* m.suggestionDebounceTag++ of the manual trigger, without the increment
StaleTag(tag) == tag

\* m.suggestionDebounceTag++ (manual trigger)
FreshTag(tag) == tag + 1

\* the test of a debounceMsg that always passes
DebounceAlwaysCurrent(msgTag, tag) == TRUE

\* the test of a debounceMsg that lets older timers pass too
DebounceNotNewer(msgTag, tag) == msgTag <= tag

\* the test of a debounceMsg, off by one
DebounceIsPrevious(msgTag, tag) == msgTag = tag - 1

\* if msg.tag == m.suggestionDebounceTag (case debounceMsg)
DebounceIsCurrent(msgTag, tag) == msgTag = tag

\* the test of a suggestionMsg that always passes
ResultAlwaysCurrent(msgTag, tag) == TRUE

\* if msg.tag == m.suggestionDebounceTag (case suggestionMsg)
ResultIsCurrent(msgTag, tag) == msgTag = tag

\* a suggestionMsg handler that reports the error to the user
ReportSuggestionError(o, prevError) == IF o.err THEN "Suggestion failed" ELSE prevError

\* m.lastError after a current suggestionMsg: errors are silently ignored
ErrorAfterSuggestion(o, prevError) == prevError

\* case suggestionMsg that closes the popup when a suggestion has arrived
PopupClosedByResult(p, o) == IF o.err THEN p ELSE Hide

\* the popup after a current suggestionMsg: the handler does not touch it
PopupAfterResult(p, o) == p

\* m.suggestion after a current suggestionMsg
SuggestionAfterResult(o) == IF o.err THEN "" ELSE o.suggestion

\* the patterns tried for one table in parseTablesFromQuery
RequestPatterns(tableLower) ==
    << tableLower, "| " \o tableLower, "|" \o tableLower, "union " \o tableLower,
       "join " \o tableLower, "join (" \o tableLower >>

TableIsMentioned(queryLower, tableLower) ==
    \E k \in 1..Len(RequestPatterns(tableLower)) :
        Contains(queryLower, RequestPatterns(tableLower)[k])

\* parseTablesFromQuery: iterates m.availableTables, in list order
RECURSIVE MentionedFrom(_, _, _, _)
MentionedFrom(tables, queryLower, i, acc) ==
    IF i > Len(tables) THEN acc
    ELSE MentionedFrom(tables, queryLower, i + 1,
            IF TableIsMentioned(queryLower, ToLower(tables[i]))
            THEN AppendNew(acc, tables[i]) ELSE acc)

parseTablesFromQuery(tables, query) ==
    MentionedFrom(tables, ToLower(query), 1, <<>>)

\* the typing branch of updateQueryView, after m.editor.Update(msg) has
\* produced <<newText, newCursor>>
Typing(newText, newCursor) ==
    /\ currentView = "Query"
    /\ suggestionDebounceTag < MaxTag
    /\ editorText' = newText
    /\ editorCursor' = newCursor
    /\ suggestion' = ""
    /\ suggestionDebounceTag' = NextTag(suggestionDebounceTag)
    /\ popup' \in localSuggestions(newText, newCursor, availableTables, schemaCache)
    /\ timers' = timers (+) OneOf(suggestionDebounceTag')
    /\ lastTrigger' = "key"
    /\ LET continues == /\ burstLo > 0
                        /\ \A g \in burstLo..suggestionDebounceTag : BagIn(g, timers)
       IN  /\ burstLo' = IF continues THEN burstLo ELSE suggestionDebounceTag + 1
           /\ burstOK' = IF continues THEN burstOK ELSE TRUE
           /\ burstIssued' = IF continues THEN burstIssued ELSE <<>>
    /\ UNCHANGED <<currentView, connected, connecting, openaiClient, client,
                   workspaceID, workspaceInput, lastError, suggestLoading,
                   availableTables, schemaCache>>
    /\ UNCHANGED <<requests, connects, tableLoads, schemaLoads>>
    /\ UNCHANGED <<lastDelivery, nConnects>>
    /\ UNCHANGED <<pureVars, obsVars, extVars>>

\* a printable character typed in the query view
KeyChar(c) == Typing(InsertAt(editorText, editorCursor, c), editorCursor + 1)

\* "backspace" in the query view
KeyBackspace ==
    IF editorCursor > 0
    THEN Typing(DeleteAt(editorText, editorCursor), editorCursor - 1)
    ELSE Typing(editorText, editorCursor)

\* "delete" in the query view
KeyDelete ==
    IF editorCursor < Len(editorText)
    THEN Typing(DeleteAt(editorText, editorCursor + 1), editorCursor)
    ELSE Typing(editorText, editorCursor)

\* "ctrl+@", "ctrl+ ", "alt+s" in the query view, connected
KeyManualTrigger ==
    /\ currentView = "Query"
    /\ connected /\ openaiClient
    /\ suggestionDebounceTag < MaxTag
    /\ suggestionDebounceTag' = FreshTag(suggestionDebounceTag)
    /\ suggestLoading' = TRUE
    /\ suggestion' = ""
    /\ popup' = Hide
    /\ requests' = requests (+) OneOf([tag |-> suggestionDebounceTag',
                                       query |-> editorText])
    /\ lastTrigger' = "manual"
    /\ burstLo' = 0
    /\ burstOK' = TRUE
    /\ burstIssued' = <<>>
    /\ UNCHANGED <<editorText, editorCursor, currentView, connected, connecting,
                   openaiClient, client, workspaceID, workspaceInput, lastError,
                   availableTables, schemaCache>>
    /\ UNCHANGED <<timers, connects, tableLoads, schemaLoads>>
    /\ UNCHANGED <<lastDelivery, nConnects>>
    /\ UNCHANGED <<pureVars, obsVars, extVars>>

\* the same keys while not connected or without an OpenAI client
KeyManualTriggerRefused ==
    /\ currentView = "Query"
    /\ ~connected \/ ~openaiClient
    /\ lastError' = "Connect to workspace first for AI suggestions"
    /\ UNCHANGED <<editorText, editorCursor, currentView, connected, connecting,
                   openaiClient, client, workspaceID, workspaceInput, suggestion,
                   suggestLoading, suggestionDebounceTag, availableTables,
                   schemaCache, popup>>
    /\ UNCHANGED <<flightVars, histVars, pureVars, obsVars, extVars>>

\* "up"/"ctrl+p" and "down"/"ctrl+n" in the query view with the popup open
KeyPopupMove(down) ==
    /\ currentView = "Query"
    /\ IsVisible(popup)
    /\ popup' = IF down THEN PopupNext(popup) ELSE PopupPrevious(popup)
    /\ UNCHANGED <<editorText, editorCursor, currentView, connected, connecting,
                   openaiClient, client, workspaceID, workspaceInput, lastError,
                   suggestion, suggestLoading, suggestionDebounceTag,
                   availableTables, schemaCache>>
    /\ UNCHANGED <<flightVars, histVars, pureVars, obsVars, extVars>>

\* "tab"/"enter" in the query view with the popup open
KeyPopupAccept ==
    /\ currentView = "Query"
    /\ IsVisible(popup)
    /\ LET selected == GetSelectedText(popup)
           newQuery == acceptSelected(editorText, editorCursor,
                                      availableTables, selected)
       IN  IF selected # ""
           THEN editorText' = newQuery /\ editorCursor' = Len(newQuery)
           ELSE UNCHANGED <<editorText, editorCursor>>
    /\ popup' = Hide
    /\ UNCHANGED <<currentView, connected, connecting, openaiClient, client,
                   workspaceID, workspaceInput, lastError, suggestion,
                   suggestLoading, suggestionDebounceTag, availableTables,
                   schemaCache>>
    /\ UNCHANGED <<flightVars, histVars, pureVars, obsVars, extVars>>

\* "f3": open the workspace view
KeyF3 ==
    /\ currentView # "Workspace"
    /\ currentView' = "Workspace"
    /\ UNCHANGED <<editorText, editorCursor, connected, connecting, openaiClient,
                   client, workspaceID, workspaceInput, lastError, suggestion,
                   suggestLoading, suggestionDebounceTag, availableTables,
                   schemaCache, popup>>
    /\ UNCHANGED <<flightVars, histVars, pureVars, obsVars, extVars>>

\* "esc" outside the query view
KeyEsc ==
    /\ currentView # "Query"
    /\ currentView' = "Query"
    /\ UNCHANGED <<editorText, editorCursor, connected, connecting, openaiClient,
                   client, workspaceID, workspaceInput, lastError, suggestion,
                   suggestLoading, suggestionDebounceTag, availableTables,
                   schemaCache, popup>>
    /\ UNCHANGED <<flightVars, histVars, pureVars, obsVars, extVars>>

\* updateWorkspaceView, keys other than "enter": the input's value becomes ws
WorkspaceInputEdit(ws) ==
    /\ currentView = "Workspace"
    /\ workspaceInput # ws
    /\ workspaceInput' = ws
    /\ UNCHANGED <<editorText, editorCursor, currentView, connected, connecting,
                   openaiClient, client, workspaceID, lastError, suggestion,
                   suggestLoading, suggestionDebounceTag, availableTables,
                   schemaCache, popup>>
    /\ UNCHANGED <<flightVars, histVars, pureVars, obsVars, extVars>>

\* updateWorkspaceView, "enter": switch workspace and reconnect
EnterWorkspace(limit) ==
    /\ currentView = "Workspace"
    /\ nConnects < limit
    /\ workspaceID' = workspaceInput
    /\ client' = IF client # "" THEN workspaceInput ELSE client
    /\ currentView' = "Query"
    /\ connecting' = TRUE
    /\ connected' = FALSE
    /\ connects' = connects (+) OneOf(workspaceInput)
    /\ nConnects' = nConnects + 1
    /\ UNCHANGED <<editorText, editorCursor, openaiClient, workspaceInput,
                   lastError, suggestion, suggestLoading, suggestionDebounceTag,
                   availableTables, schemaCache, popup>>
    /\ UNCHANGED <<timers, requests, tableLoads, schemaLoads>>
    /\ UNCHANGED <<lastTrigger, lastDelivery, burstLo, burstOK, burstIssued>>
    /\ UNCHANGED <<pureVars, obsVars, extVars>>

KeyEnterWorkspace == EnterWorkspace(MaxConnects)

\* case connectMsg
ConnectMsg(ws, ok) ==
    /\ BagIn(ws, connects)
    /\ connects' = connects (-) OneOf(ws)
    /\ connecting' = FALSE
    /\ IF ok
       THEN /\ client' = ws
            /\ openaiClient' = TRUE
            /\ connected' = TRUE
            /\ lastError' = ""
            /\ tableLoads' = tableLoads (+) OneOf(ws)
       ELSE /\ lastError' = "Connection failed"
            /\ connected' = FALSE
            /\ UNCHANGED <<client, openaiClient, tableLoads>>
    /\ UNCHANGED <<editorText, editorCursor, currentView, workspaceID,
                   workspaceInput, suggestion, suggestLoading,
                   suggestionDebounceTag, availableTables, schemaCache, popup>>
    /\ UNCHANGED <<timers, requests, schemaLoads>>
    /\ UNCHANGED <<histVars, pureVars, obsVars, extVars>>

\* fetchInitialSchemas without its limit
InitialSchemaFetchesAll(tables) ==
    [t \in {tables[i] : i \in 1..Len(tables)} |->
        Cardinality({i \in 1..Len(tables) : tables[i] = t})]

\* fetchInitialSchemas: one fetch for each of the first 10 tables
InitialSchemaFetches(tables) ==
    LET limit == IF Len(tables) < 10 THEN Len(tables) ELSE 10
    IN  [t \in {tables[i] : i \in 1..limit} |->
            Cardinality({i \in 1..limit : tables[i] = t})]

\* case tablesMsg
TablesMsg(ws, ok, tables) ==
    /\ BagIn(ws, tableLoads)
    /\ tableLoads' = tableLoads (-) OneOf(ws)
    /\ IF ok
       THEN /\ availableTables' = tables
            /\ schemaLoads' = schemaLoads (+) InitialSchemaFetches(tables)
       ELSE UNCHANGED <<availableTables, schemaLoads>>
    /\ UNCHANGED <<editorText, editorCursor, currentView, connected, connecting,
                   openaiClient, client, workspaceID, workspaceInput, lastError,
                   suggestion, suggestLoading, suggestionDebounceTag,
                   schemaCache, popup>>
    /\ UNCHANGED <<timers, requests, connects>>
    /\ UNCHANGED <<histVars, pureVars, obsVars, extVars>>

\* case schemaMsg that merges the new columns into an entry it finds
StoreSchemaMerged(cache, table, ok, columns) ==
    IF ok /\ table # ""
    THEN [t \in DOMAIN cache \cup {table} |->
             IF t # table THEN cache[t]
             ELSE IF t \in DOMAIN cache /\ cache[t] # columns
                  THEN cache[t] \o columns ELSE columns]
    ELSE cache

\* case schemaMsg that stores the columns of a failed result too
StoreSchemaAlways(cache, table, ok, columns) ==
    IF table # ""
    THEN [t \in DOMAIN cache \cup {table} |->
             IF t = table THEN columns ELSE cache[t]]
    ELSE cache

\* case schemaMsg: m.schemaCache after the message
StoreSchema(cache, table, ok, columns) ==
    IF ok /\ table # ""
    THEN [t \in DOMAIN cache \cup {table} |->
             IF t = table THEN columns ELSE cache[t]]
    ELSE cache

\* case schemaMsg, its effect on the model and on the commands in flight
HandleSchemaMsg(table, ok, columns) ==
    /\ BagIn(table, schemaLoads)
    /\ schemaLoads' = schemaLoads (-) OneOf(table)
    /\ schemaCache' = StoreSchema(schemaCache, table, ok, columns)
    /\ UNCHANGED <<editorText, editorCursor, currentView, connected, connecting,
                   openaiClient, client, workspaceID, workspaceInput, lastError,
                   suggestion, suggestLoading, suggestionDebounceTag,
                   availableTables, popup>>
    /\ UNCHANGED <<timers, requests, connects, tableLoads>>

\* case schemaMsg
SchemaMsg(table, ok, columns) ==
    /\ HandleSchemaMsg(table, ok, columns)
    /\ UNCHANGED <<histVars, pureVars, obsVars, extVars>>

\* case debounceMsg (sent by waitForDebounce(tag) after 500ms).  The
\* getSuggestion command it returns is bound to this Update call's copy of
\* the model, so the request carries the editor text of this moment.
DebounceMsg(msgTag) ==
    /\ BagIn(msgTag, timers)
    /\ timers' = timers (-) OneOf(msgTag)
    /\ IF DebounceIsCurrent(msgTag, suggestionDebounceTag)
          /\ connected /\ openaiClient
       THEN /\ suggestLoading' = TRUE
            /\ requests' = requests (+) OneOf([tag |-> suggestionDebounceTag,
                                               query |-> editorText])
            /\ burstIssued' = Append(burstIssued, suggestionDebounceTag)
       ELSE UNCHANGED <<suggestLoading, requests, burstIssued>>
    /\ burstOK' = IF burstLo > 0 /\ msgTag >= burstLo
                  THEN burstOK /\ connected /\ openaiClient
                  ELSE burstOK
    /\ UNCHANGED <<editorText, editorCursor, currentView, connected, connecting,
                   openaiClient, client, workspaceID, workspaceInput, lastError,
                   suggestion, suggestionDebounceTag, availableTables,
                   schemaCache, popup>>
    /\ UNCHANGED <<connects, tableLoads, schemaLoads>>
    /\ UNCHANGED <<lastTrigger, lastDelivery, burstLo, nConnects>>
    /\ UNCHANGED <<pureVars, obsVars, extVars>>

\* case suggestionMsg (sent by a getSuggestion command)
SuggestionMsg(req, o) ==
    /\ BagIn(req, requests)
    /\ requests' = requests (-) OneOf(req)
    /\ IF ResultIsCurrent(req.tag, suggestionDebounceTag)
       THEN /\ suggestLoading' = FALSE
            /\ suggestion' = SuggestionAfterResult(o)
            /\ lastError' = ErrorAfterSuggestion(o, lastError)
            /\ popup' = PopupAfterResult(popup, o)
       ELSE UNCHANGED <<suggestLoading, suggestion, lastError, popup>>
    /\ lastDelivery' = IF req.tag # suggestionDebounceTag THEN "dropped"
                       ELSE IF o.err THEN "appliedErr" ELSE "applied"
    /\ UNCHANGED <<editorText, editorCursor, currentView, connected, connecting,
                   openaiClient, client, workspaceID, workspaceInput,
                   suggestionDebounceTag, availableTables, schemaCache>>
    /\ UNCHANGED <<timers, connects, tableLoads, schemaLoads>>
    /\ UNCHANGED <<lastTrigger, burstLo, burstOK, burstIssued, nConnects>>
    /\ UNCHANGED <<pureVars, obsVars, extVars>>

\* the parser harness at rest
PureIdle ==
    /\ pQuery = ""
    /\ pPieces = 0
    /\ pCursor = 0
    /\ pTables = <<>>
    /\ pCtx = PanicContext
    /\ pReqTables = <<>>
    /\ pSchemas = <<>>
    /\ pLimit = 0
    /\ pSugg = <<>>
    /\ pPopup = Hide
    /\ pPrev = Hide
    /\ pCall = "none"
    /\ pDone = FALSE

Init ==
    /\ \E ws \in {""} \cup Workspaces : ModelInit(ws)
    /\ PureIdle

Next ==
    \/ \E c \in TypedChars : KeyChar(c)
    \/ KeyBackspace
    \/ KeyDelete
    \/ KeyManualTrigger
    \/ KeyManualTriggerRefused
    \/ \E down \in BOOLEAN : KeyPopupMove(down)
    \/ KeyPopupAccept
    \/ KeyF3
    \/ KeyEsc
    \/ \E ws \in Workspaces : WorkspaceInputEdit(ws)
    \/ KeyEnterWorkspace
    \/ \E ws \in Workspaces, ok \in BOOLEAN : ConnectMsg(ws, ok)
    \/ \E ws \in Workspaces, ok \in BOOLEAN : TablesMsg(ws, ok, WorkspaceTables)
    \/ \E i \in 1..Len(WorkspaceTables), ok \in BOOLEAN :
           SchemaMsg(WorkspaceTables[i], ok, TableColumns(WorkspaceTables[i]))
    \/ \E msgTag \in Tags : DebounceMsg(msgTag)
    \/ \E req \in BagToSet(requests) : \E o \in Outcomes(req) : SuggestionMsg(req, o)

Spec == Init /\ [][Next]_vars

(***************************************************************************)
(* Properties of the debounce / generation-tag protocol.                   *)
(***************************************************************************)
\* a suggestionMsg of request req was handled in this step
ResultDelivered(req) == BagIn(req, requests) /\ requests' = requests (-) OneOf(req)

\* a debounceMsg with tag g was handled in this step
DebounceDelivered(g) == BagIn(g, timers) /\ timers' = timers (-) OneOf(g)

\* this step issued exactly one remote request, carrying tag g
IssuedOneRequest(g) ==
    /\ BagCardinality(requests') = BagCardinality(requests) + 1
    /\ \E req \in BagToSet(requests') :
          /\ req.tag = g
          /\ CopiesIn(req, requests') = CopiesIn(req, requests) + 1

\* C1: a remote result (success or error) whose tag is not the current
\* generation tag leaves the whole model state as it was, in whatever order
\* the results of the older and the newer request arrive.
C1_StaleResultInert ==
    [][\A req \in BagToSet(requests) :
          (ResultDelivered(req) /\ req.tag # suggestionDebounceTag)
          => UNCHANGED modelVars]_vars

\* the newer request's result was applied first, then the older one was dropped
C1_Witness ==
    /\ lastDelivery = "dropped"
    /\ suggestion # ""
    /\ ~suggestLoading

TypingStep == (\E c \in TypedChars : KeyChar(c)) \/ KeyBackspace \/ KeyDelete

\* C2: the generation tag grows by exactly one on every qualifying keystroke
\* and every accepted manual trigger, and no other event changes it.
C2_TagStrictlyIncreases ==
    [][IF TypingStep \/ KeyManualTrigger
       THEN suggestionDebounceTag' = suggestionDebounceTag + 1
       ELSE suggestionDebounceTag' = suggestionDebounceTag]_vars

\* a keystroke and then a manual trigger have both raised the tag
C2_Witness ==
    /\ suggestionDebounceTag >= 2
    /\ lastTrigger = "manual"
    /\ timers # EmptyBag

\* C3: a debounce message with the current tag, while connected with a remote
\* suggester, issues exactly one request carrying that tag and sets
\* suggestLoading; one with another tag issues nothing and changes nothing.
C3_DebounceDelivery ==
    [][\A g \in Tags :
          DebounceDelivered(g) =>
             /\ (g = suggestionDebounceTag /\ connected /\ openaiClient)
                => (IssuedOneRequest(g) /\ suggestLoading')
             /\ (g # suggestionDebounceTag)
                => UNCHANGED <<modelVars, requests>>]_vars

\* the current keystroke's debounce has fired and its request is in flight
C3_Witness ==
    /\ lastTrigger = "key"
    /\ suggestLoading
    /\ \E req \in BagToSet(requests) : req.tag = suggestionDebounceTag
    /\ ~BagIn(suggestionDebounceTag, timers)

\* every debounce message of the current burst has been delivered
BurstDrained ==
    /\ burstLo > 0
    /\ lastTrigger = "key"
    /\ \A g \in burstLo..suggestionDebounceTag : ~BagIn(g, timers)

\* C4: after a burst of keystrokes with no debounce message delivered between
\* them, once all their debounce messages have been delivered while
\* connected, exactly one request has been issued, with the last keystroke's tag.
C4_BurstCollapses ==
    (BurstDrained /\ burstOK) => burstIssued = <<suggestionDebounceTag>>

\* a burst of at least two keystrokes, drained
C4_Witness ==
    /\ BurstDrained /\ burstOK
    /\ burstLo < suggestionDebounceTag
    /\ burstIssued = <<suggestionDebounceTag>>

\* C5: an accepted manual trigger increments the tag and at once issues a
\* request with the fresh tag, arming no timer; every timer and request
\* issued before carries a smaller tag, and delivering it changes nothing.
C5_ManualTriggerImmediate ==
    /\ [][KeyManualTrigger =>
             /\ suggestionDebounceTag' = suggestionDebounceTag + 1
             /\ IssuedOneRequest(suggestionDebounceTag')
             /\ timers' = timers
             /\ suggestLoading'
             /\ \A g \in BagToSet(timers) : g < suggestionDebounceTag'
             /\ \A req \in BagToSet(requests) : req.tag < suggestionDebounceTag']_vars
    /\ [][lastTrigger = "manual" =>
             /\ \A g \in Tags :
                   (DebounceDelivered(g) /\ g < suggestionDebounceTag)
                   => UNCHANGED <<modelVars, requests>>
             /\ \A req \in BagToSet(requests) :
                   (ResultDelivered(req) /\ req.tag < suggestionDebounceTag)
                   => UNCHANGED modelVars]_vars

\* a manual trigger was accepted while an older request was still in flight
C5_Witness ==
    /\ lastTrigger = "manual"
    /\ suggestLoading
    /\ \E req \in BagToSet(requests) : req.tag = suggestionDebounceTag
    /\ \E req \in BagToSet(requests) : req.tag < suggestionDebounceTag

\* C6: an error result carrying the current tag only empties the AI
\* suggestion and clears suggestLoading; lastError and the popup stay.
C6_ErrorResultSilent ==
    [][\A req \in BagToSet(requests) :
          (/\ ResultDelivered(req)
           /\ req.tag = suggestionDebounceTag
           /\ lastDelivery' = "appliedErr")
          => /\ suggestion' = ""
             /\ suggestLoading' = FALSE
             /\ UNCHANGED <<lastError, popup>>
             /\ UNCHANGED <<editorText, editorCursor, currentView, connected,
                            connecting, openaiClient, client, workspaceID,
                            workspaceInput, suggestionDebounceTag,
                            availableTables, schemaCache>>]_vars

\* an error result was applied while the popup was open
C6_Witness ==
    /\ lastDelivery = "appliedErr"
    /\ IsVisible(popup)
    /\ suggestion = ""
    /\ ~suggestLoading

(***************************************************************************)
(* Harness for the context parser: a query is put together from pieces,    *)
(* then ParseContext is called on it with some cursor offset.              *)
(***************************************************************************)
MaxPieces == 3

QueryPieces == {"T", " ", "|", "where", "by ", "summarize ", "\t", "x"}

\* table lists the engine may hold (SetTables)
TableLists == { <<>>, <<"T">>, <<"x", "T">> }

ParseInit ==
    /\ ModelInit("")
    /\ pQuery = ""
    /\ pPieces = 0
    /\ pCursor = 0
    /\ pTables \in TableLists
    /\ pCtx = PanicContext
    /\ pReqTables = <<>>
    /\ pSchemas = <<>>
    /\ pLimit = 0
    /\ pSugg = <<>>
    /\ pPopup = Hide
    /\ pPrev = Hide
    /\ pCall = "none"
    /\ pDone = FALSE

\* one more piece of query text
AddPiece(piece) ==
    /\ ~pDone
    /\ pPieces < MaxPieces
    /\ pQuery' = pQuery \o piece
    /\ pPieces' = pPieces + 1
    /\ UNCHANGED <<pCursor, pTables, pCtx, pReqTables, pSchemas, pLimit, pSugg,
                   pPopup, pPrev, pCall, pDone>>
    /\ UNCHANGED <<modelVars, flightVars, histVars, obsVars, extVars>>

\* ctx := engine.ParseContext(query, cursorPos), and for the same text and
\* table list m.parseTablesFromQuery(query), as getSuggestion calls it
CallParseContext(cursorPos) ==
    /\ ~pDone
    /\ pCursor' = cursorPos
    /\ pCtx' = ParseContext(pTables, pQuery, cursorPos)
    /\ pReqTables' = parseTablesFromQuery(pTables, pQuery)
    /\ pCall' = "ParseContext"
    /\ pDone' = TRUE
    /\ UNCHANGED <<pQuery, pPieces, pTables, pSchemas, pLimit, pSugg, pPopup, pPrev>>
    /\ UNCHANGED <<modelVars, flightVars, histVars, obsVars, extVars>>

ParseNext ==
    \/ \E piece \in QueryPieces : AddPiece(piece)
    \/ \E cursorPos \in -1..(Len(pQuery) + 1) : CallParseContext(cursorPos)

ParseSpec == ParseInit /\ [][ParseNext]_vars

(***************************************************************************)
(* Properties of the context parser.                                       *)
(***************************************************************************)
\* the text before the (clamped) cursor, untrimmed
Prefix == SubSeq(pQuery, 1, IF pCursor > Len(pQuery) THEN Len(pQuery) ELSE pCursor)

\* the part of the prefix after its last pipe, untrimmed
Segment == SubSeq(Prefix, LastIndex(Prefix, "|") + 2, Len(Prefix))

Parsed == pDone /\ pCursor >= 0

\* C7: ParseContext is total: for every query text and every integer cursor
\* offset it returns a Context without failing.
C7_ParseContextTotal == pDone => ~pCtx.panicked

ColumnKeywordWords == {"where", "project", "extend", "by", "on"}

\* C8: when the text before the cursor ends, after its last pipe, with a
\* column keyword followed by whitespace and nothing else, the context is
\* ColumnName and AfterKeyword is that keyword.
C8_KeywordThenSpaceIsColumn ==
    \A kw \in ColumnKeywordWords :
        (/\ Parsed
         /\ Contains(Prefix, "|")
         /\ Segment # ""
         /\ IsSpace(CharAt(Segment, Len(Segment)))
         /\ TrimSpace(Segment) = kw)
        => (pCtx.Type = "ColumnName" /\ pCtx.AfterKeyword = kw)

\* C9: the current word is the maximal run of identifier characters ending
\* exactly at the cursor in the untrimmed text, and WordStartPos is the
\* offset at which that run starts.
C9_WordEndsAtCursor ==
    Parsed =>
        LET start == WordStart(Prefix, Len(Prefix))
        IN  /\ pCtx.WordStartPos = start
            /\ pCtx.CurrentWord = SubSeq(Prefix, start + 1, Len(Prefix))

\* C10: an empty or whitespace-only prefix gives TableName; a prefix whose
\* trimmed form ends with a pipe gives Operator; a prefix whose segment after
\* the last pipe contains no space gives Operator; a prefix with no pipe and
\* no space gives TableName; whatever keywords the prefix contains.
C10_PriorityCases ==
    Parsed =>
        /\ TrimSpace(Prefix) = "" => pCtx.Type = "TableName"
        /\ HasSuffix(TrimSpace(Prefix), "|") => pCtx.Type = "Operator"
        /\ (Contains(Prefix, "|") /\ ~Contains(Segment, " ")) => pCtx.Type = "Operator"
        /\ (~Contains(Prefix, "|") /\ ~Contains(Prefix, " ")) => pCtx.Type = "TableName"

\* a keyword typed right after the pipe, with no space yet, parsed as Operator
C10_Witness ==
    /\ Parsed
    /\ Contains(Prefix, "|")
    /\ Segment = "where"
    /\ pCtx.Type = "Operator"

\* the segment, lowercased, contains the keyword followed by a space
HasKeyword(kw) == Contains(ToLower(Segment), kw \o " ")

\* the column keywords the segment contains
KeywordsPresent == {kw \in ColumnKeywordWords : HasKeyword(kw)}

\* C12: in the segment after the last pipe a column keyword wins over
\* summarize: with a column keyword present the context is ColumnName and
\* AfterKeyword is such a keyword, also when summarize is present; with
\* summarize and no column keyword it is Function with AfterKeyword "summarize".
C12_KeywordPriority ==
    (Parsed /\ Contains(Prefix, "|")) =>
        /\ KeywordsPresent # {}
           => (pCtx.Type = "ColumnName" /\ pCtx.AfterKeyword \in KeywordsPresent)
        /\ (KeywordsPresent = {} /\ HasKeyword("summarize"))
           => (pCtx.Type = "Function" /\ pCtx.AfterKeyword = "summarize")

\* every occurrence of kw in the segment is the tail of a longer identifier
OnlyInsideIdentifier(kw) ==
    \A i \in Occurrences(ToLower(Segment), kw \o " ") :
        i > 0 /\ IsWordChar(CharAt(Segment, i))

\* C13: keyword detection is by substring: a segment in which a column
\* keyword followed by a space occurs only as the tail of a longer identifier
\* (and no other column keyword occurs) is ColumnName with that keyword.
C13_SubstringKeyword ==
    \A kw \in ColumnKeywordWords :
        (/\ Parsed
         /\ Contains(Prefix, "|")
         /\ KeywordsPresent = {kw}
         /\ OnlyInsideIdentifier(kw))
        => (pCtx.Type = "ColumnName" /\ pCtx.AfterKeyword = kw)

\* offset of the first occurrence of a table's name in the query
FirstOffset(table) == SetMin(Occurrences(ToLower(pQuery), ToLower(table)))

ToSet(seq) == {seq[i] : i \in 1..Len(seq)}

\* C14: when the query references several known tables, CurrentTable is the
\* one whose name occurs first in the query text, whatever the order of the
\* known-table list.
C14_CurrentTableDocumentOrder ==
    (Parsed /\ Len(pCtx.ReferencedTables) >= 2) =>
        \A t \in ToSet(pCtx.ReferencedTables) :
            FirstOffset(pCtx.CurrentTable) <= FirstOffset(t)

\* C15: for every query text and table list, the tables parseTablesFromQuery
\* gathers for a remote request are the tables findReferencedTables finds.
C15_SameScan ==
    Parsed => ToSet(pReqTables) = ToSet(pCtx.ReferencedTables)

(***************************************************************************)
(* Harness for the suggestion engine: the query is a head followed by      *)
(* typed pieces; the engine is then asked for suggestions with the cursor  *)
(* at the end of the text, directly or through updateLocalSuggestions.     *)
(***************************************************************************)
MaxTyped == 2

SuggestHeads == {"", "T|", "T ", "|"}

SuggestPieces == {"wh", "ere", "t", "T", "where ", "summarize ", "(", "join "}

\* limits GetSuggestions is called with (0: no limit)
Limits == {0, 2, 10}

\* schema caches the engine may hold (SetSchemas)
SchemaCaches ==
    { <<>>,
      [tbl \in {"T"} |-> << [Name |-> "Type", Type |-> "string"],
                            [Name |-> "TimeGenerated", Type |-> "datetime"],
                            [Name |-> "TenantId", Type |-> "string"] >>] }

SuggestInit ==
    /\ ModelInit("")
    /\ pQuery \in SuggestHeads
    /\ pPieces = 0
    /\ pCursor = 0
    /\ pTables = <<"Tx", "T">>
    /\ pCtx = PanicContext
    /\ pReqTables = <<>>
    /\ pSchemas \in SchemaCaches
    /\ pLimit = 0
    /\ pSugg = <<>>
    /\ pPopup = Hide
    /\ pPrev = Hide
    /\ pCall = "none"
    /\ pDone = FALSE

\* ctx := engine.ParseContext(query, cursorPos); engine.GetSuggestions(ctx, limit)
CallGetSuggestions(limit) ==
    /\ ~pDone
    /\ pCursor' = Len(pQuery)
    /\ pCtx' = ParseContext(pTables, pQuery, Len(pQuery))
    /\ pLimit' = limit
    /\ pSugg' \in GetSuggestions(pTables, pSchemas, pCtx', limit)
    /\ pCall' = "GetSuggestions"
    /\ pDone' = TRUE
    /\ UNCHANGED <<pQuery, pPieces, pTables, pReqTables, pSchemas, pPopup, pPrev>>
    /\ UNCHANGED <<modelVars, flightVars, histVars, obsVars, extVars>>

\* m.updateLocalSuggestions() with the query in the editor
CallUpdateLocalSuggestions ==
    /\ ~pDone
    /\ pCursor' = Len(pQuery)
    /\ pCtx' = ParseContext(pTables, pQuery, Len(pQuery))
    /\ pPopup' \in updateLocalSuggestions(pQuery, Len(pQuery), pTables, pSchemas)
    /\ pCall' = "updateLocalSuggestions"
    /\ pDone' = TRUE
    /\ UNCHANGED <<pQuery, pPieces, pTables, pReqTables, pSchemas, pLimit, pSugg,
                   pPrev>>
    /\ UNCHANGED <<modelVars, flightVars, histVars, obsVars, extVars>>

SuggestNext ==
    \/ \E piece \in SuggestPieces : pPieces < MaxTyped /\ AddPiece(piece)
    \/ \E limit \in Limits : CallGetSuggestions(limit)
    \/ CallUpdateLocalSuggestions

SuggestSpec == SuggestInit /\ [][SuggestNext]_vars

(***************************************************************************)
(* Properties of the parser and the engine, on the queries of this harness.*)
(***************************************************************************)
\* C11: when the segment after the last pipe ends with "join " or "union "
\* (the cursor right after the space) and contains no column keyword and no
\* summarize, the context is TableName.
C11_JoinThenSpaceIsTable ==
    (/\ Parsed
     /\ Contains(Prefix, "|")
     /\ HasSuffix(ToLower(Segment), "join ") \/ HasSuffix(ToLower(Segment), "union ")
     /\ KeywordsPresent = {}
     /\ ~HasKeyword("summarize"))
    => pCtx.Type = "TableName"

SeqToBag(seq) == [x \in ToSet(seq) |-> Cardinality({i \in 1..Len(seq) : seq[i] = x})]

SortedByScore(list) == \A i \in 1..(Len(list) - 1) : list[i].Score >= list[i + 1].Score

\* list is made of candidates of cands, and no candidate left out has a
\* higher score than one that is in it
TopOf(list, cands) ==
    /\ SeqToBag(list) \sqsubseteq SeqToBag(cands)
    /\ \A o \in BagToSet(SeqToBag(cands) (-) SeqToBag(list)) :
           \A i \in 1..Len(list) : o.Score <= list[i].Score

GotSuggestions == pCall = "GetSuggestions"

\* the candidates of the call, in source iteration order
PCands == Candidates(pTables, pSchemas, pCtx)

\* C16: the list GetSuggestions returns is sorted by non-increasing score;
\* with limit > 0 it has at most limit entries, and no candidate left out has
\* a strictly higher score than a returned one.
C16_SortedAndLimited ==
    GotSuggestions =>
        /\ SortedByScore(pSugg)
        /\ pLimit > 0 => Len(pSugg) <= pLimit
        /\ TopOf(pSugg, PCands)

\* more candidates than the limit, in an order that was not sorted
C16_Witness ==
    /\ GotSuggestions
    /\ pLimit = 2
    /\ Len(PCands) > pLimit
    /\ ~SortedByScore(PCands)
    /\ Len(pSugg) = 2
    /\ pSugg[1].Score = 150

PositionIn(cands, x) == CHOOSE k \in 1..Len(cands) : cands[k] = x

\* C17: candidates of equal score keep, in the result, the relative order
\* they have in the source iteration order.
C17_StableOrder ==
    GotSuggestions =>
        \A i, j \in 1..Len(pSugg) :
            (i < j /\ pSugg[i].Score = pSugg[j].Score)
            => PositionIn(PCands, pSugg[i]) < PositionIn(PCands, pSugg[j])

\* the curated common items of each category
CommonItems(category) ==
    CASE category = "operator" -> {"where", "project", "take", "summarize"}
      [] category = "column" -> {"TimeGenerated", "ResourceId", "OperationName"}
      [] category = "function" -> {"count()", "countif(", "sum(", "sumif("}
      [] OTHER -> {}

Boosted(sg) == sg.Text \in CommonItems(sg.Type)

\* C18: every suggestion has the partial token as a case-insensitive prefix;
\* its score is 100, or 200 when it equals the token case-insensitively, plus
\* 50 when it is a common item of its category; so for the token "wh" in
\* Operator context "where" is returned with a score of at least 150, before
\* every suggestion without the boost.
C18_Scoring ==
    GotSuggestions =>
        LET token == ToLower(pCtx.CurrentWord)
        IN  /\ \A i \in 1..Len(pSugg) :
                   /\ HasPrefix(ToLower(pSugg[i].Text), token)
                   /\ pSugg[i].Score =
                         (IF ToLower(pSugg[i].Text) = token THEN 200 ELSE 100)
                         + (IF Boosted(pSugg[i]) THEN 50 ELSE 0)
            /\ (pCtx.Type = "Operator" /\ token = "wh") =>
                   \E i \in 1..Len(pSugg) :
                       /\ pSugg[i].Text = "where"
                       /\ pSugg[i].Score >= 150
                       /\ \A j \in 1..Len(pSugg) : ~Boosted(pSugg[j]) => i < j

\* "t" after the pipe: the boosted take (150) comes before top (100)
C18_Witness ==
    /\ GotSuggestions
    /\ pCtx.Type = "Operator"
    /\ pCtx.CurrentWord = "t"
    /\ Len(pSugg) = 2
    /\ pSugg[1].Text = "take" /\ pSugg[1].Score = 150
    /\ pSugg[2].Text = "top" /\ pSugg[2].Score = 100

\* C19: after updateLocalSuggestions the popup holds no suggestion whose text
\* is the current partial token; with "where" typed after the pipe, "where"
\* is not in the list.
C19_TypedTokenFiltered ==
    pCall = "updateLocalSuggestions" =>
        /\ \A i \in 1..Len(pPopup.suggestions) :
               pPopup.suggestions[i].Text # pCtx.CurrentWord
        /\ (pCtx.Type = "Operator" /\ pCtx.CurrentWord = "where") =>
               \A i \in 1..Len(pPopup.suggestions) :
                   pPopup.suggestions[i].Text # "where"

\* "where" typed in full after the pipe: its only match is dropped
C19_Witness ==
    /\ pCall = "updateLocalSuggestions"
    /\ pQuery = "T|where"
    /\ pCtx.Type = "Operator"
    /\ pCtx.CurrentWord = "where"
    /\ pPopup.suggestions = <<>>
    /\ ~pPopup.visible

\* C20: for an Unknown context the candidates are the operator candidates
\* followed by the column candidates of the current table, both for the
\* partial token, and the result is that whole list sorted and cut at the limit.
C20_MixedMode ==
    (GotSuggestions /\ pCtx.Type = "Unknown") =>
        LET all == getOperatorSuggestions(pCtx.CurrentWord)
                   \o getColumnSuggestions(pSchemas, pCtx.CurrentTable, pCtx.CurrentWord)
        IN  /\ SortedByScore(pSugg)
            /\ TopOf(pSugg, all)
            /\ Len(pSugg) = IF pLimit > 0 /\ Len(all) > pLimit THEN pLimit ELSE Len(all)

\* an operator and a column share the two places the limit leaves
C20_Witness ==
    /\ GotSuggestions
    /\ pCtx.Type = "Unknown"
    /\ pLimit = 2
    /\ Len(pSugg) = 2
    /\ pSugg[1].Type = "operator"
    /\ pSugg[2].Type = "column"

(***************************************************************************)
(* The schema cache as the local engine reads it.                          *)
(***************************************************************************)
\* the call made in this step found no cache entry for the current table
LocalLookupMisses ==
    /\ pCall = "none"
    /\ pCall' \in {"GetSuggestions", "updateLocalSuggestions"}
    /\ pCtx'.CurrentTable \notin DOMAIN pSchemas

\* C21: a local suggestion call whose current table has no cache entry (or
\* that has no current table) gets no column suggestion, and in a ColumnName
\* context an empty list; it raises no error, issues no fetch and leaves the
\* cache as it was.
C21_CacheMissSilent ==
    [][LocalLookupMisses =>
          /\ ~pCtx'.panicked
          /\ \A i \in 1..Len(pSugg') : pSugg'[i].Type # "column"
          /\ \A i \in 1..Len(pPopup'.suggestions) : pPopup'.suggestions[i].Type # "column"
          /\ pCtx'.Type = "ColumnName" =>
                 pSugg' = <<>> /\ pPopup'.suggestions = <<>> /\ ~IsVisible(pPopup')
          /\ UNCHANGED <<pSchemas, schemaCache, schemaLoads, lastError>>]_vars

\* columns asked for without a table in the query, while another table's
\* schema is cached
C21_Witness ==
    /\ GotSuggestions
    /\ pCtx.Type = "ColumnName"
    /\ pCtx.CurrentTable = ""
    /\ pCtx.CurrentWord = "t"
    /\ "T" \in DOMAIN pSchemas
    /\ pSugg = <<>>

(***************************************************************************)
(* The schema cache over a session: the workspace is entered again, the    *)
(* schema of a table differs from one fetch to the next, and getSuggestion *)
(* commands assemble their schema map while schema results arrive.         *)
(***************************************************************************)
\* column lists client.GetTableSchema can answer for a table over time
SchemaVersions(table) ==
    {TableColumns(table),
     TableColumns(table) \o << [Name |-> "ResourceId", Type |-> "string"] >>}

\* what one GetTableSchema call of fetchSchemasForTables can answer
FetchOutcomes(table) ==
    {[err |-> TRUE, columns |-> <<>>]}
    \cup {[err |-> FALSE, columns |-> c] : c \in SchemaVersions(table)}

\* the tables fetchSchemasForTables has to fetch: no entry, and a client
Uncached(cache, hasClient, tables) ==
    IF hasClient THEN {t \in ToSet(tables) : t \notin DOMAIN cache} ELSE {}

\* fetchSchemasForTables(ctx, tables): the map it returns when its
\* GetTableSchema calls answer answers
fetchSchemasForTables(cache, hasClient, tables, answers) ==
    LET fetched == {t \in Uncached(cache, hasClient, tables) :
                       ~answers[t].err /\ Len(answers[t].columns) > 0}
    IN  [t \in (ToSet(tables) \cap DOMAIN cache) \cup fetched |->
            IF t \in DOMAIN cache THEN cache[t] ELSE answers[t].columns]

\* queries the editor may hold, recalled from the history
CacheQueries == {"AzureActivity"}

\* the session once its first connection is up: text is in the editor,
\* tables is the table list held, fetchTables and fetchSchemas are the
\* commands in flight; nConnects counts the Connect commands from here on
SessionUpSized(text, cursor, tables, fetchTables, fetchSchemas, maxSize) ==
    /\ editorText = text
    /\ editorCursor = cursor
    /\ currentView = "Query"
    /\ connected = TRUE
    /\ connecting = FALSE
    /\ openaiClient = TRUE
    /\ client \in Workspaces
    /\ workspaceID = client
    /\ workspaceInput = client
    /\ lastError = ""
    /\ suggestion = ""
    /\ suggestLoading = FALSE
    /\ suggestionDebounceTag = 0
    /\ availableTables = tables
    /\ schemaCache = <<>>
    /\ popup = Hide
    /\ timers = EmptyBag
    /\ requests = EmptyBag
    /\ connects = EmptyBag
    /\ tableLoads = fetchTables
    /\ schemaLoads = fetchSchemas
    /\ lastTrigger = "none"
    /\ lastDelivery = "none"
    /\ burstLo = 0
    /\ burstOK = TRUE
    /\ burstIssued = <<>>
    /\ nConnects = 0
    /\ schemaLog = <<>>
    /\ remoteCalls = {}
    /\ NewModelRestSized(maxSize)
    /\ PureIdle

SessionUp(text, cursor, tables, fetchTables, fetchSchemas) ==
    SessionUpSized(text, cursor, tables, fetchTables, fetchSchemas, HistorySize)

\* the table list has arrived, the schema fetches are on their way
CacheInit ==
    \E text \in CacheQueries :
        SessionUp(text, Len(text), WorkspaceTables, EmptyBag,
                  InitialSchemaFetches(WorkspaceTables))

\* case schemaMsg, with the result written down
SchemaMsgLogged(table, ok, columns) ==
    /\ HandleSchemaMsg(table, ok, columns)
    /\ LET result == [ok |-> ok, columns |-> IF ok THEN columns ELSE <<>>]
       IN  schemaLog' = [t \in DOMAIN schemaLog \cup {table} |->
                            IF t # table THEN schemaLog[t]
                            ELSE IF t \in DOMAIN schemaLog
                                 THEN Append(schemaLog[t], result)
                                 ELSE <<result>>]
    /\ UNCHANGED <<histVars, pureVars, remoteCalls, extVars>>

\* a getSuggestion command runs up to its SuggestKQLQuery call: it scans the
\* query for tables, reads the cache, fetches what is missing and calls
GetSuggestionCall(req, answers) ==
    /\ BagIn(req, requests)
    /\ openaiClient
    /\ req.query # ""
    /\ \A c \in remoteCalls : c.tag # req.tag
    /\ LET referenced == parseTablesFromQuery(availableTables, req.query)
       IN  /\ DOMAIN answers = Uncached(schemaCache, client # "", referenced)
           /\ \A t \in DOMAIN answers : answers[t] \in FetchOutcomes(t)
           /\ remoteCalls' = remoteCalls \cup
                  {[tag |-> req.tag,
                    query |-> req.query,
                    referenced |-> referenced,
                    cached |-> ToSet(referenced) \cap DOMAIN schemaCache,
                    asked |-> DOMAIN answers,
                    fetched |-> {t \in DOMAIN answers : ~answers[t].err},
                    schemas |-> fetchSchemasForTables(schemaCache, client # "",
                                                      referenced, answers)]}
    /\ UNCHANGED <<modelVars, flightVars, histVars, pureVars, schemaLog, extVars>>

\* a suggestionMsg without error comes after the SuggestKQLQuery call
SuggestionMsgAfterCall(req, o) ==
    /\ o.err \/ \E c \in remoteCalls : c.tag = req.tag
    /\ SuggestionMsg(req, o)

\* every answer the GetTableSchema calls of a command can give
AnswerMaps(tables) ==
    UNION {[S -> UNION {FetchOutcomes(t) : t \in S}] : S \in SUBSET ToSet(tables)}

\* workspaces the user may enter in the workspace view
SessionWorkspaces == Workspaces \cup {"ws2"}

\* a workspace is entered again while schema results arrive
CacheNext ==
    \/ KeyF3
    \/ KeyEsc
    \/ \E ws \in SessionWorkspaces : WorkspaceInputEdit(ws)
    \/ KeyEnterWorkspace
    \/ \E ws \in SessionWorkspaces, ok \in BOOLEAN : ConnectMsg(ws, ok)
    \/ \E ws \in SessionWorkspaces, ok \in BOOLEAN : TablesMsg(ws, ok, WorkspaceTables)
    \/ \E i \in 1..Len(WorkspaceTables), ok \in BOOLEAN :
           \E columns \in SchemaVersions(WorkspaceTables[i]) :
               SchemaMsgLogged(WorkspaceTables[i], ok, columns)

CacheSpec == CacheInit /\ [][CacheNext]_vars

\* suggestions are asked for while schema results arrive
RequestNext ==
    \/ KeyManualTrigger
    \/ \E i \in 1..Len(WorkspaceTables), ok \in BOOLEAN :
           \E columns \in SchemaVersions(WorkspaceTables[i]) :
               SchemaMsgLogged(WorkspaceTables[i], ok, columns)
    \/ \E req \in BagToSet(requests) : \E answers \in AnswerMaps(availableTables) :
           GetSuggestionCall(req, answers)
    \/ \E req \in BagToSet(requests) : \E o \in Outcomes(req) :
           SuggestionMsgAfterCall(req, o)

RequestSpec == CacheInit /\ [][RequestNext]_vars

\* C22 as stated: no step changes the column list stored for a table.
C22_EntryImmutable ==
    [][\A t \in DOMAIN schemaCache :
          t \in DOMAIN schemaCache' /\ schemaCache'[t] = schemaCache[t]]_vars

\* C22: an entry of the cache stays, and its column list changes only in a
\* step that handles a successful schema result for that table, which puts
\* the columns of the result in its place, whole.
C22_EntryReplacedInFull ==
    [][\A t \in DOMAIN schemaCache :
          /\ t \in DOMAIN schemaCache'
          /\ schemaCache'[t] # schemaCache[t] =>
                 \E columns \in SchemaVersions(t) :
                     /\ HandleSchemaMsg(t, TRUE, columns)
                     /\ schemaCache'[t] = columns]_vars

\* two successful results with different columns for one table: the cache
\* holds the second
C22_Witness ==
    \E t \in DOMAIN schemaLog :
        /\ Len(schemaLog[t]) = 2
        /\ schemaLog[t][1].ok /\ schemaLog[t][2].ok
        /\ schemaLog[t][1].columns # schemaLog[t][2].columns
        /\ t \in DOMAIN schemaCache
        /\ schemaCache[t] = schemaLog[t][2].columns

\* a schema result for table is handled in this step, successful or failed
SchemaResultStep(table, ok) ==
    \E columns \in SchemaVersions(table) : HandleSchemaMsg(table, ok, columns)

\* C23: the set of cached tables never shrinks; a step that changes the cache
\* handles a successful schema result; a step that handles a failed schema
\* result leaves the cache as it was.
C23_OnlySchemaResultWrites ==
    [][/\ DOMAIN schemaCache \subseteq DOMAIN schemaCache'
       /\ schemaCache' # schemaCache =>
              \E i \in 1..Len(availableTables) : SchemaResultStep(availableTables[i], TRUE)
       /\ (\E i \in 1..Len(availableTables) : SchemaResultStep(availableTables[i], FALSE))
              => schemaCache' = schemaCache]_vars

\* a table is cached and the session has gone on: a key typed, a
\* suggestion result handled, nothing left in flight
C23_Witness ==
    /\ DOMAIN schemaCache = {"AzureActivity"}
    /\ editorText # ""
    /\ lastDelivery # "none"
    /\ schemaLoads = EmptyBag
    /\ requests = EmptyBag

\* no command is in flight: nothing more will arrive unless the user acts
NothingInFlight ==
    /\ timers = EmptyBag
    /\ requests = EmptyBag
    /\ connects = EmptyBag
    /\ tableLoads = EmptyBag
    /\ schemaLoads = EmptyBag

\* C24: a getSuggestion command that finds a referenced table without a
\* cache entry fetches its schema, and when that fetch succeeds the table's
\* columns get into the cache: once nothing is in flight any more, every
\* table fetched on demand has its entry.
C24_OnDemandFetchFillsCache ==
    NothingInFlight =>
        \A c \in remoteCalls : \A t \in c.fetched : t \in DOMAIN schemaCache

\* C25: the schema map a getSuggestion command passes to SuggestKQLQuery has
\* exactly the referenced tables that were in the cache when the command
\* read it; a referenced table without an entry is left out, and the command
\* waits for no schema fetch before it calls.
C25_SchemaMapIsCachedOnly ==
    \A c \in remoteCalls :
        /\ DOMAIN c.schemas = c.cached
        /\ c.asked = {}

(***************************************************************************)
(* The bulk prefetch: the table list of the workspace arrives and the      *)
(* schema fetches complete in any order, each with or without error.       *)
(***************************************************************************)
MaxTables == 11

\* the tables of a workspace with k tables
TablesOf(k) == [i \in 1..k |-> "Table" \o ToString(i)]

\* table lists client.GetAvailableTables may answer
PrefetchLists == {TablesOf(3), TablesOf(MaxTables)}

\* the first connection is up, the table list on its way
PrefetchInit ==
    \E ws \in Workspaces : SessionUp("", 0, <<>>, SetToBag({ws}), EmptyBag)

PrefetchNext ==
    \/ \E ws \in Workspaces, ok \in BOOLEAN, tables \in PrefetchLists :
           TablesMsg(ws, ok, tables)
    \/ \E i \in 1..Len(availableTables), ok \in BOOLEAN :
           SchemaMsgLogged(availableTables[i], ok, TableColumns(availableTables[i]))

PrefetchSpec == PrefetchInit /\ [][PrefetchNext]_vars

\* number of schema results handled for a table
Results(table) == IF table \in DOMAIN schemaLog THEN Len(schemaLog[table]) ELSE 0

\* the tables fetchInitialSchemas is to fetch: the first min(10, n)
Prefetched ==
    LET n == Len(availableTables)
    IN  {availableTables[i] : i \in 1..(IF n < 10 THEN n ELSE 10)}

\* C26: after the table list has arrived, each of the first min(10, n)
\* tables has exactly one schema fetch, in flight or completed, and no other
\* table has any; whatever fetches failed and in whatever order the results
\* came, the cache holds exactly the tables whose fetch succeeded, each with
\* the columns of its result.
C26_PrefetchIndependent ==
    /\ \A i \in 1..Len(availableTables) :
           LET t == availableTables[i]
           IN  CopiesIn(t, schemaLoads) + Results(t) = IF t \in Prefetched THEN 1 ELSE 0
    /\ DOMAIN schemaCache = {t \in DOMAIN schemaLog : schemaLog[t][1].ok}
    /\ \A t \in DOMAIN schemaCache : schemaCache[t] = schemaLog[t][1].columns

\* eleven tables: ten fetches done, some failed, the later ones stored, the
\* eleventh table never fetched
C26_Witness ==
    /\ Len(availableTables) = MaxTables
    /\ schemaLoads = EmptyBag
    /\ {"Table1", "Table3"} \subseteq DOMAIN schemaLog
    /\ ~schemaLog["Table1"][1].ok
    /\ ~schemaLog["Table3"][1].ok
    /\ DOMAIN schemaCache = Prefetched \ {"Table1", "Table3"}
    /\ availableTables[MaxTables] \notin DOMAIN schemaLog

(***************************************************************************)
(* The suggestion popup on its own: lists are set, the selection is moved  *)
(* and the popup is hidden, in any order.                                  *)
(***************************************************************************)
\* length of the longest list the popup is given
MaxListLen == 10

\* lists SetSuggestions is called with
PopupLists ==
    {<<>>} \cup {SubSeq(getOperatorSuggestions(""), 1, k) : k \in 1..MaxListLen}

PopupInit ==
    /\ ModelInit("")
    /\ PureIdle

\* p.SetSuggestions(list)
CallSetSuggestions(list) ==
    /\ pPrev' = pPopup
    /\ pPopup' = SetSuggestions(list)
    /\ pSugg' = list
    /\ pCall' = "SetSuggestions"
    /\ UNCHANGED <<pQuery, pPieces, pCursor, pTables, pCtx, pReqTables, pSchemas,
                   pLimit, pDone>>
    /\ UNCHANGED <<modelVars, flightVars, histVars, obsVars, extVars>>

\* p.Next() and p.Previous()
CallMove(down) ==
    /\ pPrev' = pPopup
    /\ pPopup' = IF down THEN PopupNext(pPopup) ELSE PopupPrevious(pPopup)
    /\ pCall' = IF down THEN "Next" ELSE "Previous"
    /\ UNCHANGED <<pQuery, pPieces, pCursor, pTables, pCtx, pReqTables, pSchemas,
                   pLimit, pSugg, pDone>>
    /\ UNCHANGED <<modelVars, flightVars, histVars, obsVars, extVars>>

\* p.Hide()
CallHide ==
    /\ pPrev' = pPopup
    /\ pPopup' = Hide
    /\ pCall' = "Hide"
    /\ UNCHANGED <<pQuery, pPieces, pCursor, pTables, pCtx, pReqTables, pSchemas,
                   pLimit, pSugg, pDone>>
    /\ UNCHANGED <<modelVars, flightVars, histVars, obsVars, extVars>>

PopupStep ==
    \/ \E list \in PopupLists : CallSetSuggestions(list)
    \/ \E down \in BOOLEAN : CallMove(down)
    \/ CallHide

PopupSpec == PopupInit /\ [][PopupStep]_vars

\* C27: after SetSuggestions(list) the popup holds list, its selected index
\* and scroll offset are 0, and it is visible exactly when list is not
\* empty, whatever the popup was before.
C27_SetSuggestionsResets ==
    pCall = "SetSuggestions" =>
        /\ pPopup.suggestions = pSugg
        /\ pPopup.selectedIndex = 0
        /\ pPopup.scrollOffset = 0
        /\ IsVisible(pPopup) <=> Len(pSugg) > 0
        /\ pPopup.visible <=> Len(pSugg) > 0

\* a list of three set on a popup that was scrolled down to its tenth row
C27_Witness ==
    /\ pCall = "SetSuggestions"
    /\ Len(pPrev.suggestions) = 10
    /\ pPrev.selectedIndex = 9
    /\ pPrev.scrollOffset = 2
    /\ Len(pSugg) = 3
    /\ IsVisible(pPopup)

EditTexts == {"", "Table | w"}

\* the keys typed
EditKeys == {"A", "h", " "}

\* table lists of the workspace
EditTableLists ==
    { <<"AzureActivity">>,
      <<"AzureActivity", "AppRequests">>,
      <<"AppRequests", "AzureActivity">>,
      <<"AzureActivity", "a">> }

\* the table list is known, the cursor at either end of the text
EditInit ==
    \E text \in EditTexts, tables \in EditTableLists : \E cursor \in {0, Len(text)} :
        SessionUp(text, cursor, tables, EmptyBag, EmptyBag)

EditNext ==
    \/ \E c \in EditKeys : KeyChar(c)
    \/ KeyBackspace
    \/ \E down \in BOOLEAN : KeyPopupMove(down)
    \/ KeyPopupAccept

EditSpec == EditInit /\ [][EditNext]_vars

\* this step accepts the selected suggestion of the open popup
AcceptStep ==
    /\ IsVisible(popup)
    /\ GetSelectedText(popup) # ""
    /\ popup' = Hide
    /\ suggestionDebounceTag' = suggestionDebounceTag

\* start of the token in progress at offset c: the word that ends at c
TokenStart(text, c) == findCurrentWord(SubSeq(text, 1, c))[2]

\* C29: accepting a suggestion with the cursor at c puts the chosen text in
\* the place of the token in progress [tokenStart, c) and leaves the text
\* before the token and after the cursor as it was, also when the cursor
\* comes right after whitespace.
C29_AcceptReplacesToken ==
    [][AcceptStep =>
          editorText' = SubSeq(editorText, 1, TokenStart(editorText, editorCursor))
                        \o GetSelectedText(popup)
                        \o SubSeq(editorText, editorCursor + 1, Len(editorText))]_vars

\* "A" is typed into the empty editor
TypesFirstA == editorText = "" /\ editorText' = "A"

\* the popup is open on "A" with "AzureActivity" selected, and is accepted
AcceptsAzureActivity ==
    /\ AcceptStep
    /\ editorText = "A"
    /\ editorCursor = 1
    /\ GetSelectedText(popup) = "AzureActivity"

\* typing "A" opened the popup with "AzureActivity" on top, selected
AzureActivityOnTop ==
    /\ IsVisible(popup')
    /\ popup'.selectedIndex = 0
    /\ popup'.suggestions[1].Text = "AzureActivity"

LeadsTablesInA(tables) ==
    LET inA == {j \in 1..Len(tables) : HasPrefix(ToLower(tables[j]), "a")}
    IN  /\ Cardinality(inA) <= 12
        /\ \E i \in inA :
               /\ tables[i] = "AzureActivity"
               /\ \A j \in inA \ {i} : j > i /\ tables[j] # "a"

AsyncArrival ==
    \/ \E g \in Tags : DebounceDelivered(g)
    \/ \E req \in BagToSet(requests) : ResultDelivered(req)

\* C31: a qualifying keystroke publishes, in the same step, the popup the
\* local engine computes for the new text and cursor, connected or not and
\* with or without a request in flight; a debounce elapse or a remote result
\* (any tag, success or error) leaves the popup's list, selection, scroll
\* and visibility as they were.
C31_PopupIndependentOfRemote ==
    [][/\ TypingStep =>
              popup' \in {SetSuggestions(FilterTyped(list, findCurrentWord(
                              TrimRight(SubSeq(editorText', 1, editorCursor'), " \t\n"))[1])) :
                          list \in GetSuggestions(availableTables, schemaCache,
                              ParseContext(availableTables, editorText', editorCursor'), 10)}
       /\ AsyncArrival => popup' = popup]_vars

\* a keystroke has opened the popup with entries while the session is not
\* connected and a request issued before the workspace change is awaited
C31_Witness ==
    /\ IsVisible(popup)
    /\ ~connected
    /\ lastTrigger = "key"
    /\ suggestLoading
    /\ editorText # ""


(***************************************************************************)
(* Package clipboard: New() on machines with every set of tools.           *)
(***************************************************************************)
Displays == {"", "wayland-0"}

\* the session is started or left: $WAYLAND_DISPLAY changes
Setenv(display) ==
    /\ clipEnv.display # display
    /\ clipEnv' = [clipEnv EXCEPT !.display = display]
    /\ UNCHANGED <<modelVars, flightVars, histVars, pureVars, obsVars, execVars,
                   templateVars, clipboard>>

\* a tool appears on $PATH
Install(tool) ==
    /\ tool \notin clipEnv.tools
    /\ clipEnv' = [clipEnv EXCEPT !.tools = @ \cup {tool}]
    /\ UNCHANGED <<modelVars, flightVars, histVars, pureVars, obsVars, execVars,
                   templateVars, clipboard>>

\* a tool leaves $PATH
Uninstall(tool) ==
    /\ tool \in clipEnv.tools
    /\ clipEnv' = [clipEnv EXCEPT !.tools = @ \ {tool}]
    /\ UNCHANGED <<modelVars, flightVars, histVars, pureVars, obsVars, execVars,
                   templateVars, clipboard>>

\* pbcopy / pbpaste call clipboard.New()
CallNew ==
    /\ clipboard' = New(clipEnv)
    /\ UNCHANGED <<modelVars, flightVars, histVars, pureVars, obsVars, execVars,
                   templateVars, clipEnv>>

ClipInit == ModelInit("") /\ PureIdle

ClipNext ==
    \/ \E display \in Displays : Setenv(display)
    \/ \E tool \in ClipboardTools : Install(tool)
    \/ \E tool \in ClipboardTools : Uninstall(tool)
    \/ CallNew

ClipSpec == ClipInit /\ [][ClipNext]_vars

\* C32: New() picks Wayland when WAYLAND_DISPLAY is set and both wl-copy and
\* wl-paste are there, otherwise xclip if there, otherwise xsel if there;
\* with none of xclip, xsel, wl-copy+wl-paste it returns ErrNoClipboardTool,
\* and with at least one of the three tool sets it returns a backend.
C32_BackendSelection ==
    clipboard.backend # "none" =>
        LET tools == clipboard.env.tools
            wl == {"wl-copy", "wl-paste"} \subseteq tools
            first == clipboard.env.display # "" /\ wl
            anySet == wl \/ "xclip" \in tools \/ "xsel" \in tools
        IN  /\ first => clipboard.backend = "wayland"
            /\ ~first /\ "xclip" \in tools => clipboard.backend = "xclip"
            /\ ~first /\ "xclip" \notin tools /\ "xsel" \in tools =>
                   clipboard.backend = "xsel"
            /\ ~anySet => clipboard.backend = "nil" /\ clipboard.err = "ErrNoClipboardTool"
            /\ anySet => clipboard.backend # "nil" /\ clipboard.err = "nil"

\* New() was called on a machine with the Wayland tools only and no
\* WAYLAND_DISPLAY, and on it returned the Wayland backend
C32_Witness ==
    /\ clipboard.backend # "none"
    /\ clipboard.env = [display |-> "", tools |-> {"wl-copy", "wl-paste"}]
    /\ clipboard.backend = "wayland"


(***************************************************************************)
(* One request per generation tag.                                         *)
(***************************************************************************)
\* C33: at most one remote request is ever issued per tag value.  A request
\* is issued only by handling the one debounce message of its tag or by a
\* manual trigger that has just made the tag; a step issues at most one; no
\* request with that tag is in flight and no timer with that tag is left; a
\* timer is armed only with a tag made in the same step; the tag never goes
\* back.  So no two requests carry the same tag.
C33_OneRequestPerTag ==
    /\ [][\A g \in Tags :
             IssuedOneRequest(g) =>
                /\ g = suggestionDebounceTag'
                /\ \A req \in BagToSet(requests) : req.tag # g
                /\ ~BagIn(g, timers')
                /\ \/ DebounceDelivered(g)
                   \/ KeyManualTrigger /\ g = suggestionDebounceTag + 1]_vars
    /\ [][BagCardinality(requests') > BagCardinality(requests) =>
             \E g \in Tags : IssuedOneRequest(g)]_vars
    /\ [][\A g \in Tags :
             CopiesIn(g, timers') > CopiesIn(g, timers) =>
                /\ g = suggestionDebounceTag + 1
                /\ g = suggestionDebounceTag'
                /\ CopiesIn(g, timers') = 1
                /\ \A req \in BagToSet(requests') : req.tag # g]_vars
    /\ [][suggestionDebounceTag' >= suggestionDebounceTag]_vars

\* two requests are in flight, the later one issued by a keystroke's
\* debounce message, and every timer has fired
C33_Witness ==
    /\ \E r1, r2 \in BagToSet(requests) : r1.tag < r2.tag
    /\ lastTrigger = "key"
    /\ timers = EmptyBag


(***************************************************************************)
(* The session with keystrokes, triggers and a workspace change.           *)
(***************************************************************************)
LoadingInit == SessionUp("", 0, WorkspaceTables, EmptyBag, EmptyBag)

LoadingNext ==
    \/ \E c \in TypedChars : KeyChar(c)
    \/ KeyManualTrigger
    \/ \E msgTag \in Tags : DebounceMsg(msgTag)
    \/ \E req \in BagToSet(requests) : \E o \in Outcomes(req) : SuggestionMsg(req, o)
    \/ KeyF3
    \/ KeyEsc
    \/ KeyEnterWorkspace
    \/ \E ws \in Workspaces, ok \in BOOLEAN : ConnectMsg(ws, ok)
    \/ \E ws \in Workspaces, ok \in BOOLEAN : TablesMsg(ws, ok, WorkspaceTables)
    \/ \E i \in 1..Len(WorkspaceTables), ok \in BOOLEAN :
           SchemaMsg(WorkspaceTables[i], ok, TableColumns(WorkspaceTables[i]))

LoadingSpec == LoadingInit /\ [][LoadingNext]_vars

\* C34: whenever suggestLoading is true, a remote request carrying the
\* current tag is in flight or a debounce timer carrying the current tag is
\* pending (so the indicator goes away once the timers and requests are
\* through).
C34_LoadingHasCause ==
    suggestLoading =>
        \/ \E req \in BagToSet(requests) : req.tag = suggestionDebounceTag
        \/ BagIn(suggestionDebounceTag, timers)


(***************************************************************************)
(* Remote results and the editor text.                                     *)
(***************************************************************************)
\* C35: whenever a remote result is applied (becomes the displayed AI
\* suggestion), the query text its request was computed from equals the
\* editor text at that moment.
C35_AppliedResultMatchesText ==
    [][\A req \in BagToSet(requests) :
          (/\ ResultDelivered(req)
           /\ req.tag = suggestionDebounceTag
           /\ lastDelivery' = "applied")
          => req.query = editorText]_vars


(***************************************************************************)
(* Query execution and the keys that clear the AI suggestion.              *)
(***************************************************************************)
MaxExec == 3

\* ensureQueryLimit(query, 100) in executeQuery
QueryLimit == 100

LimitKeywords == <<"| take ", "|take ", "| limit ", "|limit ", "| top ", "|top ">>

LimitSuffixes == <<"| take", "|take", "| limit", "|limit", "| top", "|top">>

ensureQueryLimit(query, defaultLimit) ==
    LET queryLower == ToLower(query)
    IN  IF \E k \in 1..Len(LimitKeywords) : Contains(queryLower, LimitKeywords[k])
        THEN query
        ELSE IF \E k \in 1..Len(LimitSuffixes) : HasSuffix(queryLower, LimitSuffixes[k])
        THEN query
        ELSE query \o " | take " \o ToString(defaultLimit)

\* "ctrl+enter", "f5" in the query view, and executeQuery
KeyExecute ==
    /\ currentView = "Query"
    /\ BagCardinality(queries) + Len(historyAdded) < MaxExec
    /\ IF ~connected
       THEN /\ lastError' = "Not connected. Press F3 to set workspace."
            /\ UNCHANGED <<suggestion, popup, loading, lastQuery, queries, clearedAt>>
       ELSE /\ suggestion' = ""
            /\ popup' = Hide
            /\ clearedAt' = suggestionDebounceTag
            /\ LET query == TrimSpace(editorText)
               IN  IF query = ""
                   THEN /\ lastError' = "Query cannot be empty"
                        /\ UNCHANGED <<loading, lastQuery, queries>>
                   ELSE /\ loading' = TRUE
                        /\ lastQuery' = ensureQueryLimit(query, QueryLimit)
                        /\ lastError' = ""
                        /\ queries' = queries (+) OneOf(lastQuery')
    /\ UNCHANGED <<editorText, editorCursor, currentView, connected, connecting,
                   openaiClient, client, workspaceID, workspaceInput,
                   suggestLoading, suggestionDebounceTag, availableTables,
                   schemaCache>>
    /\ UNCHANGED <<history, historyList, historyIndex, historyAdded, recent>>
    /\ UNCHANGED <<flightVars, histVars, pureVars, obsVars, templateVars, clipVars>>

\* addToHistory(success, errMsg)
addToHistory(success, errMsg) ==
    LET entry == [Query |-> lastQuery, Workspace |-> workspaceID,
                  WasSuccess |-> success, ErrorMsg |-> errMsg]
    IN  /\ history' = HistoryAdd(history, entry)
        /\ historyList' = <<>>
        /\ historyAdded' = Append(historyAdded, entry)

\* case queryResultMsg
QueryResultMsg(query, ok) ==
    /\ BagIn(query, queries)
    /\ queries' = queries (-) OneOf(query)
    /\ loading' = FALSE
    /\ IF ok
       THEN lastError' = "" /\ addToHistory(TRUE, "")
       ELSE lastError' = "Query failed" /\ addToHistory(FALSE, "Query failed")
    /\ UNCHANGED <<editorText, editorCursor, currentView, connected, connecting,
                   openaiClient, client, workspaceID, workspaceInput, suggestion,
                   suggestLoading, suggestionDebounceTag, availableTables,
                   schemaCache, popup>>
    /\ UNCHANGED <<lastQuery, historyIndex, recent, clearedAt>>
    /\ UNCHANGED <<flightVars, histVars, pureVars, obsVars, templateVars, clipVars>>

\* "ctrl+l" in the query view
KeyCtrlL ==
    /\ currentView = "Query"
    /\ editorText' = ""
    /\ editorCursor' = 0
    /\ suggestion' = ""
    /\ popup' = Hide
    /\ clearedAt' = suggestionDebounceTag
    /\ UNCHANGED <<currentView, connected, connecting, openaiClient, client,
                   workspaceID, workspaceInput, lastError, suggestLoading,
                   suggestionDebounceTag, availableTables, schemaCache>>
    /\ UNCHANGED <<loading, lastQuery, queries, history, historyList,
                   historyIndex, historyAdded, recent>>
    /\ UNCHANGED <<flightVars, histVars, pureVars, obsVars, templateVars, clipVars>>

\* "tab" in the query view with the popup closed: accept the AI suggestion
\* if there is one, otherwise go to the results
KeyTab ==
    /\ currentView = "Query"
    /\ ~IsVisible(popup)
    /\ IF suggestion # ""
       THEN /\ editorText' = suggestion
            /\ editorCursor' = Len(suggestion)
            /\ suggestion' = ""
            /\ UNCHANGED currentView
       ELSE /\ currentView' = "Results"
            /\ UNCHANGED <<editorText, editorCursor, suggestion>>
    /\ UNCHANGED <<connected, connecting, openaiClient, client, workspaceID,
                   workspaceInput, lastError, suggestLoading,
                   suggestionDebounceTag, availableTables, schemaCache, popup>>
    /\ UNCHANGED <<flightVars, histVars, pureVars, obsVars, extVars>>

ClearInit == SessionUp("", 0, WorkspaceTables, EmptyBag, EmptyBag)

ClearNext ==
    \/ \E c \in TypedChars : KeyChar(c)
    \/ KeyManualTrigger
    \/ \E msgTag \in Tags : DebounceMsg(msgTag)
    \/ \E req \in BagToSet(requests) : \E o \in Outcomes(req) : SuggestionMsg(req, o)
    \/ KeyExecute
    \/ \E query \in BagToSet(queries), ok \in BOOLEAN : QueryResultMsg(query, ok)
    \/ KeyCtrlL
    \/ KeyTab
    \/ KeyEsc

ClearSpec == ClearInit /\ [][ClearNext]_vars

\* C36: once the AI suggestion has been cleared by executing a query or by
\* Ctrl+L, it stays empty until the next qualifying keystroke or manual
\* trigger (each of which makes a new tag): a request or timer pending at
\* the time of the clearing never makes a suggestion appear.
C36_ClearingIsFinal ==
    clearedAt = suggestionDebounceTag => suggestion = ""


(***************************************************************************)
(* Two workspace changes in quick succession.                              *)
(***************************************************************************)
ConnectInit == SessionUp("", 0, WorkspaceTables, EmptyBag, EmptyBag)

ConnectNext ==
    \/ KeyF3
    \/ KeyEsc
    \/ \E ws \in SessionWorkspaces : WorkspaceInputEdit(ws)
    \/ EnterWorkspace(MaxConnects + 1)
    \/ \E ws \in SessionWorkspaces, ok \in BOOLEAN : ConnectMsg(ws, ok)
    \/ \E ws \in SessionWorkspaces, ok \in BOOLEAN : TablesMsg(ws, ok, WorkspaceTables)
    \/ \E i \in 1..Len(WorkspaceTables), ok \in BOOLEAN :
           SchemaMsg(WorkspaceTables[i], ok, TableColumns(WorkspaceTables[i]))

ConnectSpec == ConnectInit /\ [][ConnectNext]_vars

\* C37: in every state with connected and not connecting, the stored client
\* was created for the current workspaceID, in whatever order the results of
\* two Connect commands arrive; connected and connecting are never both true.
C37_ClientMatchesWorkspace ==
    /\ (connected /\ ~connecting) => client = workspaceID
    /\ ~(connected /\ connecting)


(***************************************************************************)
(* The query history: executed queries are added, lists are read back.     *)
(***************************************************************************)
MaxHistory == 2

\* "f2": open the history view on the most recent entries
KeyF2 ==
    /\ historyList' = GetRecent(history, RecentCount)
    /\ historyIndex' = 0
    /\ currentView' = "History"
    /\ UNCHANGED <<editorText, editorCursor, connected, connecting, openaiClient,
                   client, workspaceID, workspaceInput, lastError, suggestion,
                   suggestLoading, suggestionDebounceTag, availableTables,
                   schemaCache, popup>>
    /\ UNCHANGED <<loading, lastQuery, queries, history, historyAdded, recent,
                   clearedAt>>
    /\ UNCHANGED <<flightVars, histVars, pureVars, obsVars, templateVars, clipVars>>

\* History.GetRecent(n) called on the history as it is
CallGetRecent(n) ==
    /\ recent' = [n |-> n, entries |-> GetRecent(history, n), of |-> history.Entries]
    /\ UNCHANGED <<loading, lastQuery, queries, history, historyList,
                   historyIndex, historyAdded, clearedAt>>
    /\ UNCHANGED <<modelVars, flightVars, histVars, pureVars, obsVars,
                   templateVars, clipVars>>

HistoryInit ==
    \E maxSize \in 1..MaxHistory :
        SessionUpSized("A", 1, WorkspaceTables, EmptyBag, EmptyBag, maxSize)

HistoryNext ==
    \/ KeyExecute
    \/ \E query \in BagToSet(queries), ok \in BOOLEAN : QueryResultMsg(query, ok)
    \/ KeyF2
    \/ KeyEsc
    \/ \E n \in 0..MaxExec : CallGetRecent(n)

HistorySpec == HistoryInit /\ [][HistoryNext]_vars

Min(a, b) == IF a < b THEN a ELSE b

\* C38: after any sequence of Add calls the history holds at most MaxSize
\* entries, the entry added last is at index 0, the entries held are the most
\* recently added ones in reverse order of insertion, and GetRecent(n), for
\* n >= 0, returns the first min(n, len) entries.
C38_BoundedMostRecentFirst ==
    LET entries == history.Entries
        n == Len(historyAdded)
    IN  /\ Len(entries) <= history.MaxSize
        /\ n > 0 => entries[1] = historyAdded[n]
        /\ Len(entries) = Min(n, history.MaxSize)
        /\ \A i \in 1..Len(entries) : entries[i] = historyAdded[n - i + 1]
        /\ recent.n >= 0 =>
               recent.entries = SubSeq(recent.of, 1, Min(recent.n, Len(recent.of)))
        /\ currentView = "History" => historyList \in {<<>>, entries}

\* more entries were added than the history holds, the oldest one differs
\* from the ones kept, and GetRecent was asked for fewer entries than held
C38_Witness ==
    /\ Len(historyAdded) > history.MaxSize
    /\ historyAdded[1] # historyAdded[Len(historyAdded)]
    /\ Len(history.Entries) = 2
    /\ recent.n = 1
    /\ recent.of = history.Entries
    /\ recent.entries = <<historyAdded[Len(historyAdded)]>>


(***************************************************************************)
(* Saving the query as a template.                                         *)
(***************************************************************************)
MaxName == 2

MaxTemplates == 2

\* "ctrl+s", "f6" in the query view
KeyCtrlS ==
    /\ currentView = "Query"
    /\ IF editorText # ""
       THEN savingTemplate' = TRUE /\ templateInput' = ""
       ELSE UNCHANGED <<savingTemplate, templateInput>>
    /\ UNCHANGED <<templates, templateList, templateIndex>>
    /\ UNCHANGED <<modelVars, flightVars, histVars, pureVars, obsVars, execVars,
                   clipVars>>

\* "enter" in the query view with the popup closed: the editor takes it as a
\* line break (it is not a key of the typing branch)
KeyEnterQuery ==
    /\ currentView = "Query"
    /\ ~IsVisible(popup)
    /\ Len(editorText) <= MaxTag
    /\ editorText' = InsertAt(editorText, editorCursor, "\n")
    /\ editorCursor' = editorCursor + 1
    /\ UNCHANGED <<currentView, connected, connecting, openaiClient, client,
                   workspaceID, workspaceInput, lastError, suggestion,
                   suggestLoading, suggestionDebounceTag, availableTables,
                   schemaCache, popup>>
    /\ UNCHANGED <<flightVars, histVars, pureVars, obsVars, extVars>>

\* "f4": open the templates view
KeyF4 ==
    /\ templateList' = templates
    /\ templateIndex' = 0
    /\ currentView' = "Templates"
    /\ UNCHANGED <<editorText, editorCursor, connected, connecting, openaiClient,
                   client, workspaceID, workspaceInput, lastError, suggestion,
                   suggestLoading, suggestionDebounceTag, availableTables,
                   schemaCache, popup>>
    /\ UNCHANGED <<savingTemplate, templateInput, templates>>
    /\ UNCHANGED <<flightVars, histVars, pureVars, obsVars, execVars, clipVars>>

\* updateTemplatesView with the save dialog open, "enter"
TemplatesSaveEnter ==
    /\ currentView = "Templates"
    /\ savingTemplate
    /\ Len(templates) < MaxTemplates
    /\ templates' = IF templateInput # ""
                    THEN TemplatesAdd(templates, templateInput, editorText)
                    ELSE templates
    /\ savingTemplate' = FALSE
    /\ UNCHANGED <<templateInput, templateList, templateIndex>>
    /\ UNCHANGED <<modelVars, flightVars, histVars, pureVars, obsVars, execVars,
                   clipVars>>

\* updateTemplatesView with the save dialog open, a printable character:
\* m.templateInput.Update(msg)
TemplatesSaveChar(c) ==
    /\ currentView = "Templates"
    /\ savingTemplate
    /\ Len(templateInput) < MaxName
    /\ templateInput' = templateInput \o c
    /\ UNCHANGED <<savingTemplate, templates, templateList, templateIndex>>
    /\ UNCHANGED <<modelVars, flightVars, histVars, pureVars, obsVars, execVars,
                   clipVars>>

TemplateInit ==
    \E text \in {"", "A"} :
        SessionUp(text, Len(text), WorkspaceTables, EmptyBag, EmptyBag)

TemplateNext ==
    \/ KeyCtrlS
    \/ \E c \in TypedChars : KeyChar(c)
    \/ KeyEnterQuery
    \/ KeyF4
    \/ KeyEsc
    \/ TemplatesSaveEnter
    \/ \E c \in TypedChars : TemplatesSaveChar(c)

TemplateSpec == TemplateInit /\ [][TemplateNext]_vars

\* C39: once Ctrl+S or F6 in the query view has opened the save dialog on a
\* non-empty query, and without the templates view being opened, a typed
\* character goes to the template-name input and not to the query editor,
\* and Enter with a non-empty name adds a template holding the current
\* query and ends the dialog.
C39_SaveDialogTakesKeys ==
    [][(savingTemplate /\ currentView = "Query") =>
          /\ \A c \in TypedChars :
                KeyChar(c) => /\ editorText' = editorText
                              /\ templateInput' = templateInput \o c
          /\ (KeyEnterQuery /\ templateInput # "") =>
                /\ templates' = TemplatesAdd(templates, templateInput, editorText)
                /\ ~savingTemplate']_vars

====
